---- MODULE Spec2Model ----
(***************************************************************************)
(* YellowPay client core: the WebSocketManager transport                   *)
(* (src/src/lib/websocket.ts), the AuthManager handshake                   *)
(* (src/unnamed/part_000), the BalanceManager cache                        *)
(* (src/unnamed/part_002) and the SessionKeyManager key lifecycle          *)
(* (src/unnamed/part_001), modelled as one state machine.                  *)
(*                                                                         *)
(* Granularity: one action is one JavaScript task (a public call, a        *)
(* socket event, a timer callback) together with the promise               *)
(* continuations it resumes, which the event loop runs before the next     *)
(* task.  Timers are pending/not pending; a pending timer may fire at any  *)
(* later task.  The clock `now` is what Date.now() returns.                *)
(***************************************************************************)
EXTENDS Integers, Sequences, FiniteSets, TLC

(* ------------------------------- bounds -------------------------------- *)
\* live WebSocket objects that may exist at the same time
MaxSockets == 2
\* calls of WebSocketManager.send made by callers outside the core
MaxSends == 3
\* one-shot waits (waitForMessage, waitForBalanceResponse) created in a run
MaxWaits == 4
\* handshakes started in a run
MaxHs == 2
\* balance calls (getUnifiedBalance, getChannelBalance) made in a run
MaxCalls == 2
\* getChannelBalance calls among them
MaxChannelCalls == 1
\* clock ticks in a run
MaxTicks == 4
\* consecutive connection losses the server causes while a handshake is studied
MaxLosses == 2
\* SessionKeyManager calls made in a run
MaxOps == 3
\* half-lifetimes of a session key that pass in a run
MaxElapses == 3
\* digits of the smallest-unit amounts formatBalance is applied to
MaxDigits == 3
\* characters of the passwords validatePassword is applied to
MaxPwLen == 8
\* handlers registered with on() by callers outside the core
MaxObservers == 3

(* --------------------------- program constants ------------------------- *)
maxReconnectAttempts == 10
AuthWaitMs == 10000
BalanceWaitMs == 10000
cacheDuration == 30000
\* the step of the model's clock: a third of the cache TTL
TickMs == cacheDuration \div 3
BaseDelay == 1000
CapDelay == 30000
SESSION_KEY_DURATION == 3600000
\* significant bits of an IEEE 754 double, the result type of parseFloat
DoubleBits == 53

NULL == 0
Sockets == 1..MaxSockets

WaitIds == 1..MaxWaits
CallIds == 1..MaxCalls
Assets == {"usd", "eur"}
PulledAmount == "100"
PushedAmount == "250"
ChannelAmount == "7"
Channels == {"ch1"}
\* the id of the permanent balance_update listener BalanceManager's constructor registers
PushListener == 0
HsIds == 1..MaxHs

VARIABLES
  ws,                \* WebSocketManager.ws: NULL or the current socket
  sock,              \* readyState of every socket object: NONE = no such object
  messageQueue,      \* WebSocketManager.messageQueue
  reconnectAttempts, \* WebSocketManager.reconnectAttempts
  reconnectTimeout,  \* WebSocketManager.reconnectTimeout: [set, pending, delay]
  wire,              \* history: the messages handed to WebSocket.send, in order
  accepted,          \* history: the messages passed to send() and not discarded by disconnect()
  recording,         \* the histories this specification keeps: "wire", "accepted", "waits", "calls"
  window,            \* whether the global scope has a window object: TRUE in a page, FALSE in the
                     \* service worker that background.ts runs in
  nSends,            \* history: number of send() calls of outside callers
  messageHandlers,   \* WebSocketManager.messageHandlers: pairs <<event, handler>>
  waits,             \* the promises of waitForMessage / waitForBalanceResponse with their timers
  nWaits,            \* number of one-shot waits created
  first,             \* history: per wait, the first matching message dispatched before its timer fired
  fired,             \* history: per wait, whether its timer callback has run
  authInProgress,    \* AuthManager.authInProgress
  authPromise,       \* AuthManager.authPromise: NULL or the handshake whose promise it is
  hs,                \* every _performAuthentication run: position, wait, result
  nHs,               \* number of handshakes started
  now,               \* Date.now()
  balanceCache,      \* BalanceManager.balanceCache: asset -> [present, amount, timestamp]
  bc,                \* every getUnifiedBalance call: position, arguments, wait, result
  nCalls,            \* number of getUnifiedBalance calls made
  cb,                \* every getChannelBalance call, in call order: position, wait, result
  storage,           \* chrome.storage.local: [encryptedSessionKey, sessionKeyExpiry]
  storageQueue,      \* the chrome.storage.local requests issued and not yet completed, in order
  sk,                \* every SessionKeyManager call: position, arguments, result
  nOps,              \* number of SessionKeyManager calls made
  nKeys,             \* number of private keys generatePrivateKey() has produced
  conv,              \* the last formatBalance / parseBalance conversion: input and outputs
  pw,                \* the last validatePassword call: its argument and what it returned
  observers,         \* the handlers callers registered with on(): whether each returns or throws
  delivered          \* history: the last frame handleMessage received and the handlers it invoked

tvars == <<ws, sock, messageQueue, reconnectAttempts, reconnectTimeout, wire, accepted, recording, window>>
dvars == <<messageHandlers, waits, nWaits, first, fired>>
avars == <<authInProgress, authPromise, hs, nHs>>
bvars == <<now, balanceCache, bc, nCalls, cb>>
kvars == <<storage, storageQueue, sk, nOps, nKeys, conv, pw>>
ovars == <<observers, delivered>>
vars == <<tvars, nSends, dvars, avars, bvars, kvars, ovars>>

(* ------------------------------ helpers -------------------------------- *)
Min(a, b) == IF a < b THEN a ELSE b

RECURSIVE Pow2(_)
Pow2(n) == IF n = 0 THEN 1 ELSE 2 * Pow2(n - 1)

NoTimer == [set |-> FALSE, pending |-> FALSE, delay |-> 0]

\* The transport's fields as one value, so that a method can be applied inside another.
TState == [ws |-> ws, sock |-> sock, messageQueue |-> messageQueue, reconnectAttempts |-> reconnectAttempts, reconnectTimeout |-> reconnectTimeout, wire |-> wire, accepted |-> accepted, recording |-> recording, window |-> window]

SetT(t) ==
  /\ ws' = t.ws
  /\ sock' = t.sock
  /\ messageQueue' = t.messageQueue
  /\ reconnectAttempts' = t.reconnectAttempts
  /\ reconnectTimeout' = t.reconnectTimeout
  /\ wire' = t.wire
  /\ accepted' = t.accepted
  /\ recording' = t.recording
  /\ window' = t.window

FreeSockets(t) == {s \in Sockets : t.sock[s] = "NONE"}

\* the lowest unused socket slot: the object `new WebSocket(url)` returns
NewSocket(t) == CHOOSE s \in FreeSockets(t) : \A r \in FreeSockets(t) : s <= r

(* ------------------------------ messages ------------------------------ *)
\* An outbound message: the request envelope {req: [id, method, {asset}, ts]} (or the
\* string the SDK built for auth).  `by` is history: the handshake or call that sent it.
OutMsg(id, method, asset, by) == [id |-> id, method |-> method, asset |-> asset, by |-> by]

\* An inbound message as handleMessage parses it: `res` whether it has a res array,
\* id = res[0], method = res[1] ("" when absent), payload what res[2] is: "absent"
\* (undefined or null), "falsy" (0, "" or false: present, but `!res[2]` holds) or
\* "object", type = its type field ("" when absent), asset/balance/challenge the
\* payload's fields ("" / FALSE when absent).  `answers` is history: the position in `wire` of the
\* request the server answers with it (0 for an unsolicited message).
InMsg(res, id, method, payload, type, asset, balance, challenge, answers) == [res |-> res, id |-> id, method |-> method, payload |-> payload, type |-> type, asset |-> asset, balance |-> balance, challenge |-> challenge, answers |-> answers]

NoMsg == InMsg(FALSE, 0, "", "absent", "", "", "", FALSE, 0)

(* ------------------------- WebSocketManager ---------------------------- *)
\* history: WebSocket.send(m) was called on the OPEN socket for each message of ms
transmitted(t, ms) == IF "wire" \in t.recording THEN [t EXCEPT !.wire = t.wire \o ms] ELSE t

\* history: send(m) was called
passed(t, m) == IF "accepted" \in t.recording THEN [t EXCEPT !.accepted = Append(t.accepted, m)] ELSE t

isConnected(t) == t.ws # NULL /\ t.sock[t.ws] = "OPEN"

\* connect(): no-op when the current socket is OPEN, else a new socket replaces this.ws
connect(t) ==
  IF isConnected(t) THEN t
  ELSE LET s == NewSocket(t) IN [t EXCEPT !.ws = s, !.sock[s] = "CONNECTING"]

\* whether connect() would have to create a socket the model has no slot for
CanConnect(t) == isConnected(t) \/ FreeSockets(t) # {}

\* lines 140-150 with the delay given: the attempt is counted, the old timer cleared and
\* the new one armed with window.setTimeout; without a window object that call throws
\* ReferenceError out of the close event and this.reconnectTimeout keeps its old value
armed(t, delay) ==
  IF t.window
  THEN [t EXCEPT !.reconnectAttempts = t.reconnectAttempts + 1,
                 !.reconnectTimeout = [set |-> TRUE, pending |-> TRUE, delay |-> delay]]
  ELSE [t EXCEPT !.reconnectAttempts = t.reconnectAttempts + 1,
                 !.reconnectTimeout.pending = FALSE]

\* mutant: the attempt limit is tested with > instead of >=
scheduleReconnectOneMore(t) ==
  IF t.reconnectAttempts > maxReconnectAttempts THEN t
  ELSE armed(t, Min(BaseDelay * Pow2(t.reconnectAttempts + 1), CapDelay))

\* mutant: the backoff delay is not capped
scheduleReconnectUncapped(t) ==
  IF t.reconnectAttempts >= maxReconnectAttempts THEN t
  ELSE armed(t, BaseDelay * Pow2(t.reconnectAttempts + 1))

\* scheduleReconnect(): lines 134-151
scheduleReconnect(t) ==
  IF t.reconnectAttempts >= maxReconnectAttempts THEN t
  ELSE armed(t, Min(BaseDelay * Pow2(t.reconnectAttempts + 1), CapDelay))

\* flushMessageQueue(): every queued message is shifted off; it is handed to
\* the socket only if this.ws is OPEN at that point
flushMessageQueue(t) ==
  IF isConnected(t)
  THEN [transmitted(t, t.messageQueue) EXCEPT !.messageQueue = <<>>]
  ELSE [t EXCEPT !.messageQueue = <<>>]

handleOpen(t) == flushMessageQueue([t EXCEPT !.reconnectAttempts = 0])

\* handleError(error): lines 74-76, only console.error
handleError(t) == t

handleClose(t) == scheduleReconnect([t EXCEPT !.ws = NULL])

\* mutant: a message that is queued always triggers connect()
sendAlwaysConnects(t, m) ==
  IF isConnected(t)
  THEN transmitted(passed(t, m), <<m>>)
  ELSE LET q == [passed(t, m) EXCEPT !.messageQueue = Append(t.messageQueue, m)]
       IN IF FreeSockets(q) # {} THEN connect(q) ELSE q

send(t, m) ==
  IF isConnected(t)
  THEN transmitted(passed(t, m), <<m>>)
  ELSE LET q == [passed(t, m) EXCEPT !.messageQueue = Append(t.messageQueue, m)]
       IN IF q.ws = NULL \/ q.sock[q.ws] = "CLOSED" THEN connect(q) ELSE q

\* whether send() can be modelled: it may call connect()
CanSend(t) == (t.ws # NULL /\ t.sock[t.ws] # "CLOSED") \/ FreeSockets(t) # {}

\* WebSocket.close() on socket s: the closing handshake starts, unless the socket is
\* already CLOSING or CLOSED, where close() does nothing
close(S, s) == IF S[s] \in {"CONNECTING", "OPEN"} THEN [S EXCEPT ![s] = "CLOSING"] ELSE S

\* history: disconnect() discards the queued messages
discarded(t) ==
  IF "accepted" \in t.recording
  THEN SelectSeq(t.accepted, LAMBDA m : \A i \in DOMAIN t.messageQueue : t.messageQueue[i] # m)
  ELSE t.accepted

\* mutant: disconnect() keeps the queued messages
disconnectKeepsQueue(t) ==
  [t EXCEPT !.reconnectTimeout = IF t.reconnectTimeout.set THEN NoTimer ELSE t.reconnectTimeout,
            !.sock = IF t.ws # NULL THEN close(t.sock, t.ws) ELSE t.sock,
            !.ws = NULL,
            !.reconnectAttempts = 0]

\* disconnect(): lines 212-226
disconnect(t) ==
  LET closed == IF t.ws # NULL THEN close(t.sock, t.ws) ELSE t.sock
  IN [t EXCEPT !.reconnectTimeout = IF t.reconnectTimeout.set THEN NoTimer ELSE t.reconnectTimeout,
               !.sock = closed,
               !.ws = NULL,
               !.reconnectAttempts = 0,
               !.messageQueue = <<>>,
               !.accepted = discarded(t)]

\* getMessageType(message)
getMessageType(m) ==
  IF m.res /\ m.method # "" THEN m.method
  ELSE IF m.type # "" THEN m.type
  ELSE "unknown"

\* on(event, handler) / off(event, handler) on the registry H
on(H, event, handler) == H \cup {<<event, handler>>}

off(H, event, handler) == H \ {<<event, handler>>}

(* ---------------------------- one-shot waits ---------------------------- *)
\* A wait is the promise made by waitForMessage (kind "type", event = the message
\* type) or waitForBalanceResponse (kind "reqid", event = "message"), its handler and
\* its timer.  state: free (not created) / pending / resolved / rejected; value: the
\* message it resolved with; settles: how often resolve or reject was invoked.
FreeWait == [state |-> "free", kind |-> "", event |-> "", reqid |-> 0, timeout |-> 0, timer |-> FALSE, value |-> NoMsg, settles |-> 0]

\* the promise executor: setTimeout(..., timeout), then wsManager.on(event, handler)
\* mutant: the wait arms no timer
newWaitNoTimer(kind, event, reqid, timeout) == [state |-> "pending", kind |-> kind, event |-> event, reqid |-> reqid, timeout |-> timeout, timer |-> FALSE, value |-> NoMsg, settles |-> 0]

newWait(kind, event, reqid, timeout) == [state |-> "pending", kind |-> kind, event |-> event, reqid |-> reqid, timeout |-> timeout, timer |-> TRUE, value |-> NoMsg, settles |-> 0]

\* whether the handler of wait w acts on message m: waitForMessage's handler always
\* does, waitForBalanceResponse's only if message.res && message.res[0] === requestId
handlerMatches(w, m) == w.kind = "type" \/ (m.res /\ m.id = w.reqid)
\* mutant: the handler forgets clearTimeout(timeoutId)
handlerBodyKeepsTimer(w, m) ==
  [w EXCEPT !.state = IF w.state = "pending" THEN "resolved" ELSE w.state,
            !.value = IF w.state = "pending" THEN m ELSE w.value,
            !.settles = w.settles + 1]

\* the handler's body on a message it acts on: clearTimeout, off, resolve(message)
handlerBody(w, m) ==
  [w EXCEPT !.timer = FALSE,
            !.state = IF w.state = "pending" THEN "resolved" ELSE w.state,
            !.value = IF w.state = "pending" THEN m ELSE w.value,
            !.settles = w.settles + 1]

\* the reason the timer callback rejects with
timeoutError(w) ==
  IF w.kind = "type" THEN "Timeout waiting for " \o w.event ELSE "Timeout waiting for balance response"

\* the timer callback: off, reject(new Error("Timeout waiting for ..."))
timeoutBody(w) ==
  [w EXCEPT !.timer = FALSE,
            !.state = IF w.state = "pending" THEN "rejected" ELSE w.state,
            !.settles = w.settles + 1]
\* mutant: handleMessage invokes every registered handler, whatever its event
invokedAll(H, m) == {w \in WaitIds : \E p \in H : p[2] = w}

\* the one-shot handlers handleMessage invokes for m: those registered for its type,
\* then those registered for "message"
invoked(H, m) == {w \in WaitIds : <<getMessageType(m), w>> \in H \/ <<"message", w>> \in H}

\* the waits whose handler acts on m
acting(H, W, m) == {w \in invoked(H, m) : handlerMatches(W[w], m)}

\* the waits m resolves
resolvedBy(H, W, m) == {w \in acting(H, W, m) : W[w].state = "pending"}

dispatchWaits(H, W, m) == [w \in WaitIds |-> IF w \in acting(H, W, m) THEN handlerBody(W[w], m) ELSE W[w]]

dispatchHandlers(H, W, m) == H \ {<<W[w].event, w>> : w \in acting(H, W, m)}

(* ------------------------- registered observers ------------------------- *)
\* A handler a caller registered with on(event, handler).  Observers are numbered in
\* registration order, which is the order a Set of handlers is iterated in.
ObserverIds == 1..MaxObservers

\* the handler id of observer k in the registry (wait w's handler is w)
Observer(k) == MaxWaits + k

\* what the body of observer k does to the registry when it is invoked: an observer
\* "offNext" calls off(event, g) under every event for the handler g registered right
\* after it; the others leave the registry alone
handler(H, O, k) == IF O[k] = "offNext" THEN {p \in H : p[2] # Observer(k + 1)} ELSE H

\* whether an exception of observer k leaves the forEach callback: each call is
\* inside its own try/catch (lines 92-98 and 104-110)
escapes(O, k) == FALSE

\* handlers.forEach(...) over the Set of key, from observer k on: a Set is iterated in
\* insertion order and a handler deleted before its turn is not visited.  The calls
\* made, whether an exception ended the iteration, and the registry afterwards
RECURSIVE forEach(_, _, _, _)
forEach(H, O, key, k) ==
  IF k > MaxObservers THEN [calls |-> {}, thrown |-> FALSE, handlers |-> H]
  ELSE IF <<key, Observer(k)>> \notin H THEN forEach(H, O, key, k + 1)
  ELSE IF escapes(O, k) THEN [calls |-> {<<key, k>>}, thrown |-> TRUE, handlers |-> H]
  ELSE LET rest == forEach(handler(H, O, k), O, key, k + 1)
       IN [calls |-> {<<key, k>>} \cup rest.calls, thrown |-> rest.thrown, handlers |-> rest.handlers]

\* handleMessage, lines 82-113, on a frame that parsed to m: the observers of the
\* message type first, then those registered for "message" (the Set fetched after
\* the first pass); an exception that reaches the outer catch ends the dispatch
observerDispatch(H, O, m) ==
  LET typed == forEach(H, O, getMessageType(m), 1)
  IN IF typed.thrown THEN typed
     ELSE LET all == forEach(typed.handlers, O, "message", 1)
          IN [calls |-> typed.calls \cup all.calls, thrown |-> all.thrown, handlers |-> all.handlers]

\* the calls of observers handleMessage makes on m
observerCalls(H, O, m) == observerDispatch(H, O, m).calls

\* subscribeToBalanceUpdates(callback), lines 177-197: the listener it registers is an
\* observer whose behaviour is "callback" or "callbackThrows" (what the callback does;
\* the listener catches it).  The callbacks called for m: those of the listeners
\* handleMessage invokes, when res[2] names an asset and a balance (line 181)
notified(H, O, m) ==
  IF m.res /\ m.payload = "object" /\ m.asset # "" /\ m.balance # ""
  THEN {<<c[2], m.asset, m.balance>> : c \in {x \in observerCalls(H, O, m) : O[x[2]] \in {"callback", "callbackThrows"}}}
  ELSE {}

\* data: "json" for a frame that parsed to a message getMessageType accepts, "null"
\* for the JSON text null, "text" for a frame that is not JSON
\* notified: the callbacks passed to subscribeToBalanceUpdates that were called, with
\* their arguments
NoDelivery == [data |-> "none", message |-> NoMsg, calls |-> {}, notified |-> {}]

(* ------------------------------ AuthManager ----------------------------- *)
\* what a run of _performAuthentication ended with: a returned result object
\* {success, balance | error} (balance "" for undefined); "none" while it runs
NoResult == [kind |-> "none", success |-> FALSE, error |-> "", balance |-> ""]

Returned(success, error, balance) == [kind |-> "returned", success |-> success, error |-> error, balance |-> balance]


\* the catch block of _performAuthentication (every throw below happens inside its try)
catch(error) == Returned(FALSE, error, "")

\* challengeMessage: whether res[2].challenge_message (line 130) was present, while
\* the signer has it
IdleHs == [pc |-> "idle", wait |-> 0, result |-> NoResult, sent |-> <<>>, got |-> <<>>, challengeMessage |-> FALSE]

AState == [authInProgress |-> authInProgress, authPromise |-> authPromise, hs |-> hs]

SetA(a) ==
  /\ authInProgress' = a.authInProgress
  /\ authPromise' = a.authPromise
  /\ hs' = a.hs

\* the finally block of authenticate, run by the call that started the handshake
finally(a) == [a EXCEPT !.authInProgress = FALSE, !.authPromise = NULL]
\* mutant: the guard is released on the success path only (no finally)
completeReleasesOnSuccessOnly(a, h, r) ==
  IF r.success THEN finally([a EXCEPT !.hs[h].pc = "done", !.hs[h].result = r])
  ELSE [a EXCEPT !.hs[h].pc = "done", !.hs[h].result = r]

\* handshake h ends with result r: its promise settles and the starter's finally runs
complete(a, h, r) == finally([a EXCEPT !.hs[h].pc = "done", !.hs[h].result = r])

\* lines 126-144: the continuation after waitForMessage("auth_challenge") resolved with m
afterChallenge(a, h, m) ==
  IF ~m.res \/ m.payload # "object"
  THEN complete(a, h, catch("Invalid auth_challenge response"))
  ELSE [a EXCEPT !.hs[h].pc = "signing", !.hs[h].got = Append(a.hs[h].got, "auth_challenge"), !.hs[h].challengeMessage = m.challenge]

\* lines 152-164: the continuation after waitForMessage("auth_success") resolved with m
afterSuccess(a, h, m) ==
  IF ~m.res
  THEN complete(a, h, catch("Invalid auth_success response"))
  ELSE IF m.payload = "absent"
  THEN complete(a, h, catch("TypeError"))
  ELSE complete([a EXCEPT !.hs[h].got = Append(a.hs[h].got, "auth_success")], h, Returned(TRUE, "", m.balance))

\* the continuation of handshake h when its wait resolved with m
resume(a, h, m) ==
  IF a.hs[h].pc = "waitchal" THEN afterChallenge(a, h, m) ELSE afterSuccess(a, h, m)
\* mutant: the rejection reason of the timer is lost on the way to the result
timedOutUnknownError(a, h, w) == complete(a, h, catch("Unknown error"))

\* mutant: the rejection of the challenge wait is swallowed and the handshake goes on
timedOutGoesOn(a, h, w) ==
  IF a.hs[h].pc = "waitchal" THEN [a EXCEPT !.hs[h].pc = "signing"]
  ELSE complete(a, h, catch(timeoutError(w)))

\* the continuation of handshake h when its wait w was rejected by its timer
timedOut(a, h, w) == complete(a, h, catch(timeoutError(w)))

\* the handshakes that wait on one of the waits in S
waiting(a, S) == {h \in HsIds : a.hs[h].pc \in {"waitchal", "waitsucc"} /\ a.hs[h].wait \in S}

\* the waits in S that an operation awaits: its continuation takes the message
owned(a, S) ==
  {w \in S : \/ waiting(a, {w}) # {}
             \/ \E c \in CallIds : bc[c].pc = "waiting" /\ bc[c].wait = w
             \/ \E k \in DOMAIN cb : cb[k].pc = "waiting" /\ cb[k].wait = w}

\* the message of a consumed promise is no longer reachable
consume(W, S) == [w \in WaitIds |-> IF w \in S THEN [W[w] EXCEPT !.value = NoMsg] ELSE W[w]]

RECURSIVE resumeAll(_, _, _)
resumeAll(a, hset, m) ==
  IF hset = {} THEN a
  ELSE LET h == CHOOSE x \in hset : \A y \in hset : x <= y
       IN resumeAll(resume(a, h, m), hset \ {h}, m)

(* ----------------------------- BalanceManager --------------------------- *)
NoEntry == [present |-> FALSE, amount |-> "", timestamp |-> 0]

IdleCall == [pc |-> "idle", asset |-> "", force |-> FALSE, reqid |-> 0, wait |-> 0, result |-> "", answer |-> 0]

\* a getChannelBalance call up to its await
ChannelCall(channelId, reqid, wait) == [pc |-> "waiting", channel |-> channelId, reqid |-> reqid, wait |-> wait, result |-> ""]

BState == [balanceCache |-> balanceCache, bc |-> bc, cb |-> cb]

SetB(b) ==
  /\ balanceCache' = b.balanceCache
  /\ bc' = b.bc
  /\ cb' = b.cb

\* mutant: the age test of the cache is <= instead of <
cacheFreshInclusive(entry, t) == entry.present /\ t - entry.timestamp <= cacheDuration

\* line 41: cached && Date.now() - cached.timestamp < this.cacheDuration
cacheFresh(entry, t) == entry.present /\ t - entry.timestamp < cacheDuration

\* lines 39-45: whether getUnifiedBalance returns the cached amount at once
servedFromCache(b, asset, forceRefresh, t) == ~forceRefresh /\ cacheFresh(b.balanceCache[asset], t)

\* mutant: the catch block ignores the cache
fallbackZero(b, asset) == "0"

\* lines 76-82: the catch block: the cached amount, however old, or "0"
fallback(b, asset) == IF b.balanceCache[asset].present THEN b.balanceCache[asset].amount ELSE "0"

\* lines 61-74: the continuation of call c after waitForBalanceResponse resolved with m
afterBalance(b, c, m, t) ==
  IF ~m.res \/ m.payload # "object"
  THEN [b EXCEPT !.bc[c].pc = "done", !.bc[c].result = fallback(b, b.bc[c].asset)]
  ELSE LET balance == IF m.balance = "" THEN "0" ELSE m.balance
       IN [b EXCEPT !.balanceCache[b.bc[c].asset] = [present |-> TRUE, amount |-> balance, timestamp |-> t],
                    !.bc[c].pc = "done", !.bc[c].result = balance, !.bc[c].answer = m.answers]

\* the continuation of call c after waitForBalanceResponse was rejected by its timer
afterBalanceTimeout(b, c) == [b EXCEPT !.bc[c].pc = "done", !.bc[c].result = fallback(b, b.bc[c].asset)]

\* lines 116-122: the continuation of channel call k after waitForBalanceResponse resolved with m
afterChannelBalance(b, k, m) ==
  IF ~m.res \/ m.payload # "object"
  THEN [b EXCEPT !.cb[k].pc = "done", !.cb[k].result = "0"]
  ELSE [b EXCEPT !.cb[k].pc = "done", !.cb[k].result = IF m.balance = "" THEN "0" ELSE m.balance]

\* lines 124-127: the continuation of channel call k after its wait was rejected by its timer
afterChannelTimeout(b, k) == [b EXCEPT !.cb[k].pc = "done", !.cb[k].result = "0"]

\* lines 212-215: this.balanceCache.clear()
clearCache(b) == [b EXCEPT !.balanceCache = [a \in Assets |-> NoEntry]]

\* mutant: an existing cache entry keeps its timestamp
pushedKeepsAge(b, m, t) ==
  IF m.res /\ m.payload = "object" /\ m.asset # "" /\ m.balance # ""
  THEN [b EXCEPT !.balanceCache[m.asset] = [present |-> TRUE, amount |-> m.balance, timestamp |-> IF b.balanceCache[m.asset].present THEN b.balanceCache[m.asset].timestamp ELSE t]]
  ELSE b

\* lines 178-196: the balance_update listener on message m
pushed(b, m, t) ==
  IF m.res /\ m.payload = "object" /\ m.asset # "" /\ m.balance # ""
  THEN [b EXCEPT !.balanceCache[m.asset] = [present |-> TRUE, amount |-> m.balance, timestamp |-> t]]
  ELSE b

\* the calls that wait on one of the waits in S
callsWaiting(b, S) == {c \in CallIds : b.bc[c].pc = "waiting" /\ b.bc[c].wait \in S}

\* the continuations run in the order their handlers resolved: registration order
RECURSIVE resumeCalls(_, _, _, _)
resumeCalls(b, cset, m, t) ==
  IF cset = {} THEN b
  ELSE LET c == CHOOSE x \in cset : \A y \in cset : b.bc[x].wait <= b.bc[y].wait
       IN resumeCalls(afterBalance(b, c, m, t), cset \ {c}, m, t)

\* the channel calls that wait on one of the waits in S
channelCallsWaiting(b, S) == {k \in DOMAIN b.cb : b.cb[k].pc = "waiting" /\ b.cb[k].wait \in S}

\* the continuations of the channel calls: they touch nothing but their own call
RECURSIVE resumeChannelCalls(_, _, _)
resumeChannelCalls(b, kset, m) ==
  IF kset = {} THEN b
  ELSE LET k == CHOOSE x \in kset : \A y \in kset : x <= y
       IN resumeChannelCalls(afterChannelBalance(b, k, m), kset \ {k}, m)

\* handleMessage(m) as BalanceManager sees it: the listener first, then the continuations
balanceDispatch(b, H, W, m, t) ==
  LET b1 == IF <<getMessageType(m), PushListener>> \in H \/ <<"message", PushListener>> \in H THEN pushed(b, m, t) ELSE b
      b2 == resumeCalls(b1, callsWaiting(b1, resolvedBy(H, W, m)), m, t)
  IN resumeChannelCalls(b2, channelCallsWaiting(b2, resolvedBy(H, W, m)), m)

(* --------------------------- SessionKeyManager -------------------------- *)
\* Strings of decimal digits (amounts) are sequences of digits, most significant
\* first; numbers too large for a machine word are sequences of bits, least
\* significant first, without leading zero.
OpIds == 1..MaxOps
Passwords == {"pw1", "pw2"}
KeyAssets == {"ytest.usd", "usd"}

RECURSIVE NatBits(_)
NatBits(n) == IF n = 0 THEN <<>> ELSE <<n % 2>> \o NatBits(n \div 2)

RECURSIVE addBits(_, _, _)
addBits(a, b, c) ==
  IF a = <<>> /\ b = <<>> THEN (IF c = 1 THEN <<1>> ELSE <<>>)
  ELSE LET x == IF a = <<>> THEN 0 ELSE Head(a)
           y == IF b = <<>> THEN 0 ELSE Head(b)
       IN <<(x + y + c) % 2>> \o addBits(IF a = <<>> THEN <<>> ELSE Tail(a), IF b = <<>> THEN <<>> ELSE Tail(b), (x + y + c) \div 2)

times10(b) == IF b = <<>> THEN <<>> ELSE addBits(<<0>> \o b, <<0, 0, 0>> \o b, 0)

\* the exact value of a string of decimal digits
RECURSIVE decimalBits(_)
decimalBits(ds) ==
  IF ds = <<>> THEN <<>>
  ELSE addBits(times10(decimalBits(SubSeq(ds, 1, Len(ds) - 1))), NatBits(ds[Len(ds)]), 0)

\* a >= b for two numbers in bits
bitsGeq(a, b) ==
  IF Len(a) # Len(b) THEN Len(a) > Len(b)
  ELSE a = b \/ LET i == CHOOSE k \in 1..Len(a) : a[k] # b[k] /\ \A j \in (k + 1)..Len(a) : a[j] = b[j]
                IN a[i] = 1

\* the nearest double of an integer, ties to even
roundToDouble(b) ==
  IF Len(b) <= DoubleBits THEN b
  ELSE LET k == Len(b) - DoubleBits
           high == SubSeq(b, k + 1, Len(b))
           up == b[k] = 1 /\ (high[1] = 1 \/ \E i \in 1..(k - 1) : b[i] = 1)
       IN [i \in 1..k |-> 0] \o (IF up THEN addBits(high, <<1>>, 0) ELSE high)

NaN == [nan |-> TRUE, bits |-> <<>>]

\* parseFloat(s) for a string of decimal digits; NaN for the empty string
parseFloat(s) == IF s = <<>> THEN NaN ELSE [nan |-> FALSE, bits |-> roundToDouble(decimalBits(s))]

\* x >= y for two doubles: false when either is NaN
floatGeq(x, y) == ~x.nan /\ ~y.nan /\ bitsGeq(x.bits, y.bits)

NoKey == [privateKey |-> 0, expiresAt |-> 0, allowances |-> <<>>]

\* lines 165-167: the allowances of a key generated when there was none
DefaultAllowances == <<[asset |-> "ytest.usd", amount |-> <<1, 0, 0>>]>>

\* generateSessionKey(allowances); n stands for the private key generatePrivateKey() drew
generateSessionKey(allowances, n, t) == [privateKey |-> n, expiresAt |-> t + SESSION_KEY_DURATION, allowances |-> allowances]

\* isExpired(sessionKey): Date.now() > sessionKey.expiresAt
isExpired(key, t) == t > key.expiresAt

\* allowances.find(a => a.asset === asset): the position of the first entry, 0 if none
find(allowances, asset) ==
  IF \E i \in DOMAIN allowances : allowances[i].asset = asset
  THEN CHOOSE i \in DOMAIN allowances : allowances[i].asset = asset /\ \A j \in 1..(i - 1) : allowances[j].asset # asset
  ELSE 0

\* needsRotation(sessionKey, spentAmount, asset)
needsRotation(key, spentAmount, asset, t) ==
  IF isExpired(key, t) THEN TRUE
  ELSE LET i == find(key.allowances, asset)
       IN i # 0 /\ floatGeq(parseFloat(spentAmount), parseFloat(key.allowances[i].amount))

NoCipher == [present |-> FALSE, key |-> NoKey, password |-> "", corrupt |-> FALSE]

\* encrypt(JSON.stringify(sessionKey), password)
encrypt(key, password) == [present |-> TRUE, key |-> key, password |-> password, corrupt |-> FALSE]

\* JSON.parse(decrypt(encrypted, password)): with another password or a damaged
\* ciphertext decrypt throws or yields text that JSON.parse rejects
decrypt(encrypted, password) ==
  IF encrypted.password = password /\ ~encrypted.corrupt
  THEN [ok |-> TRUE, key |-> encrypted.key]
  ELSE [ok |-> FALSE, key |-> NoKey]

EmptyStorage == [encryptedSessionKey |-> NoCipher, sessionKeyExpiry |-> 0]

\* a SessionKeyManager call: `called` is Date.now() at a needsRotation call, `made` the key it
\* generated, `why` (history) the branch a load that returned null took
IdleOp == [kind |-> "", pc |-> "idle", password |-> "", key |-> NoKey, spentAmount |-> <<>>, asset |-> "", called |-> 0, made |-> NoKey, outcome |-> "none", result |-> NoKey, flag |-> FALSE, why |-> ""]

KState == [storage |-> storage, storageQueue |-> storageQueue, sk |-> sk, nKeys |-> nKeys]

SetK(k) ==
  /\ storage' = k.storage
  /\ storageQueue' = k.storageQueue
  /\ sk' = k.sk
  /\ nKeys' = k.nKeys

\* a chrome.storage.local request of call i
StorageRequest(i, kind, encrypted, expiry) == [op |-> i, kind |-> kind, encrypted |-> encrypted, expiry |-> expiry]

\* call i returns
returned(k, i, outcome, result, why) ==
  [k EXCEPT !.sk[i].pc = "done", !.sk[i].outcome = outcome, !.sk[i].result = result, !.sk[i].why = why]

\* saveToStorage(sessionKey, password) up to its await: encrypt, chrome.storage.local.set
saveToStorage(k, i, key, password) ==
  [k EXCEPT !.storageQueue = Append(k.storageQueue, StorageRequest(i, "set", encrypt(key, password), key.expiresAt))]

\* clearFromStorage() up to its await: chrome.storage.local.remove
clearFromStorage(k, i) ==
  [k EXCEPT !.storageQueue = Append(k.storageQueue, StorageRequest(i, "remove", NoCipher, 0))]

\* mutant: loadFromStorage returns the decrypted key without the expiry test
afterGetNoExpiryTest(k, i, t) ==
  LET d == decrypt(k.storage.encryptedSessionKey, k.sk[i].password)
  IN IF ~k.storage.encryptedSessionKey.present THEN returned(k, i, "null", NoKey, "absent")
     ELSE IF ~d.ok THEN returned(k, i, "null", NoKey, "decrypt")
     ELSE returned(k, i, "key", d.key, "")

\* loadFromStorage lines 93-117, resumed with the result of chrome.storage.local.get
afterGet(k, i, t) ==
  LET d == decrypt(k.storage.encryptedSessionKey, k.sk[i].password)
  IN IF ~k.storage.encryptedSessionKey.present THEN returned(k, i, "null", NoKey, "absent")
     ELSE IF ~d.ok THEN returned(k, i, "null", NoKey, "decrypt")
     ELSE IF isExpired(d.key, t) THEN clearFromStorage([k EXCEPT !.sk[i].pc = "clearing"], i)
     ELSE returned(k, i, "key", d.key, "")

\* mutant: remove() is given the ciphertext's name only
storedRemoveKeepsExpiry(st, r) ==
  IF r.kind = "set" THEN [encryptedSessionKey |-> r.encrypted, sessionKeyExpiry |-> r.expiry]
  ELSE IF r.kind = "remove" THEN [st EXCEPT !.encryptedSessionKey = NoCipher]
  ELSE st

\* what a completed request leaves in chrome.storage.local
stored(st, r) ==
  IF r.kind = "set" THEN [encryptedSessionKey |-> r.encrypted, sessionKeyExpiry |-> r.expiry]
  ELSE IF r.kind = "remove" THEN EmptyStorage
  ELSE st

\* the oldest chrome.storage.local request completes and the call that awaits it resumes
storageDone(k, t) ==
  LET r == Head(k.storageQueue)
      i == r.op
      k1 == [k EXCEPT !.storageQueue = Tail(k.storageQueue), !.storage = stored(k.storage, r)]
  IN IF r.kind = "get" THEN afterGet(k1, i, t)
     ELSE IF k.sk[i].kind = "load" THEN returned(k1, i, "null", NoKey, "expired")
     ELSE IF k.sk[i].kind = "rotate" THEN returned(k1, i, "key", k.sk[i].made, "")
     ELSE returned(k1, i, "void", NoKey, "")

\* mutant: a rotated key starts with the default allowances
rotateIfNeededDefaultAllowances(k, i, sessionKey, spentAmount, asset, password, t) ==
  LET call == [IdleOp EXCEPT !.kind = "rotate", !.key = sessionKey, !.spentAmount = spentAmount, !.asset = asset, !.password = password]
      newSessionKey == generateSessionKey(DefaultAllowances, k.nKeys + 1, t)
  IN IF sessionKey = NoKey \/ needsRotation(sessionKey, spentAmount, asset, t)
     THEN saveToStorage([k EXCEPT !.sk[i] = [call EXCEPT !.pc = "saving", !.made = newSessionKey], !.nKeys = k.nKeys + 1], i, newSessionKey, password)
     ELSE returned([k EXCEPT !.sk[i] = call], i, "key", sessionKey, "")

\* rotateIfNeeded(sessionKey, spentAmount, asset, password) up to its await
rotateIfNeeded(k, i, sessionKey, spentAmount, asset, password, t) ==
  LET call == [IdleOp EXCEPT !.kind = "rotate", !.key = sessionKey, !.spentAmount = spentAmount, !.asset = asset, !.password = password]
      allowances == IF sessionKey = NoKey THEN DefaultAllowances ELSE sessionKey.allowances
      newSessionKey == generateSessionKey(allowances, k.nKeys + 1, t)
  IN IF sessionKey = NoKey \/ needsRotation(sessionKey, spentAmount, asset, t)
     THEN saveToStorage([k EXCEPT !.sk[i] = [call EXCEPT !.pc = "saving", !.made = newSessionKey], !.nKeys = k.nKeys + 1], i, newSessionKey, password)
     ELSE returned([k EXCEPT !.sk[i] = call], i, "key", sessionKey, "")

(* ------------------- BalanceManager: amount formatting ------------------ *)
\* A formatted amount is a sequence of characters: the digits 0..9 and Dot.
Dot == 10

RECURSIVE stripLeadingZeros(_)
stripLeadingZeros(s) == IF s # <<>> /\ Head(s) = 0 THEN stripLeadingZeros(Tail(s)) ELSE s

RECURSIVE stripTrailingZeros(_)
stripTrailingZeros(s) == IF s # <<>> /\ s[Len(s)] = 0 THEN stripTrailingZeros(SubSeq(s, 1, Len(s) - 1)) ELSE s

zeros(n) == [i \in 1..n |-> 0]

\* BigInt(s) for a string of digits, as the digits of its value: BigInt("") is 0n
BigInt(s) == IF stripLeadingZeros(s) = <<>> THEN <<0>> ELSE stripLeadingZeros(s)

\* n / BigInt(10 ** d)
divPow10(n, d) == IF Len(n) > d THEN SubSeq(n, 1, Len(n) - d) ELSE <<0>>

\* n % BigInt(10 ** d)
modPow10(n, d) == IF Len(n) > d THEN BigInt(SubSeq(n, Len(n) - d + 1, Len(n))) ELSE IF d = 0 THEN <<0>> ELSE n

\* n * BigInt(10 ** d)
mulPow10(n, d) == IF n = <<0>> THEN n ELSE n \o zeros(d)

\* a + b on digits, least significant first, with carry c
RECURSIVE addDigits(_, _, _)
addDigits(a, b, c) ==
  IF a = <<>> /\ b = <<>> THEN (IF c = 1 THEN <<1>> ELSE <<>>)
  ELSE LET x == IF a = <<>> THEN 0 ELSE Head(a)
           y == IF b = <<>> THEN 0 ELSE Head(b)
       IN <<(x + y + c) % 10>> \o addDigits(IF a = <<>> THEN <<>> ELSE Tail(a), IF b = <<>> THEN <<>> ELSE Tail(b), (x + y + c) \div 10)

reverse(s) == [i \in 1..Len(s) |-> s[Len(s) + 1 - i]]

\* a + b for two BigInt values
addBigInt(a, b) == BigInt(reverse(addDigits(reverse(a), reverse(b), 0)))

padStart(s, n) == IF Len(s) < n THEN zeros(n - Len(s)) \o s ELSE s

padEnd(s, n) == IF Len(s) < n THEN s \o zeros(n - Len(s)) ELSE s

\* s.slice(0, n)
slice(s, n) == SubSeq(s, 1, IF Len(s) < n THEN Len(s) ELSE n)

\* formatted.split('.'): the characters before the first Dot, and those between the
\* first and the second Dot (the default '' when there is no Dot)
splitWhole(s) == IF \E i \in DOMAIN s : s[i] = Dot THEN SubSeq(s, 1, (CHOOSE i \in DOMAIN s : s[i] = Dot /\ \A j \in 1..(i - 1) : s[j] # Dot) - 1) ELSE s

splitFraction(s) ==
  IF \E i \in DOMAIN s : s[i] = Dot
  THEN splitWhole(SubSeq(s, (CHOOSE i \in DOMAIN s : s[i] = Dot /\ \A j \in 1..(i - 1) : s[j] # Dot) + 1, Len(s)))
  ELSE <<>>

\* mutant: the remainder is not padded to `decimals` digits
formatBalanceNoPad(amount, decimals) ==
  LET numAmount == BigInt(amount)
      trimmed == stripTrailingZeros(modPow10(numAmount, decimals))
  IN IF trimmed = <<>> THEN divPow10(numAmount, decimals) ELSE divPow10(numAmount, decimals) \o <<Dot>> \o trimmed

\* formatBalance(amount, decimals), lines 135-157
formatBalance(amount, decimals) ==
  LET numAmount == BigInt(amount)
      whole == divPow10(numAmount, decimals)
      remainder == modPow10(numAmount, decimals)
      remainderStr == padStart(remainder, decimals)
      trimmed == stripTrailingZeros(remainderStr)
  IN IF trimmed = <<>> THEN whole ELSE whole \o <<Dot>> \o trimmed

\* parseBalance(formatted, decimals), lines 162-172
parseBalance(formatted, decimals) ==
  LET whole == splitWhole(formatted)
      fraction == splitFraction(formatted)
      paddedFraction == slice(padEnd(fraction, decimals), decimals)
  IN addBigInt(mulPow10(BigInt(whole), decimals), BigInt(paddedFraction))

NoConversion == [pc |-> "idle", amount |-> <<>>, decimals |-> 0, formatted |-> <<>>, parsed |-> <<>>]

(* ---------------------- password validation (lines 208-226) ------------- *)
\* the characters the regular expressions /[A-Z]/, /[a-z]/ and /[0-9]/ match
UpperCase == {"A", "B", "C", "D", "E", "F", "G", "H", "I", "J", "K", "L", "M", "N", "O", "P", "Q", "R", "S", "T", "U", "V", "W", "X", "Y", "Z"}
LowerCase == {"a", "b", "c", "d", "e", "f", "g", "h", "i", "j", "k", "l", "m", "n", "o", "p", "q", "r", "s", "t", "u", "v", "w", "x", "y", "z"}
Digits == {"0", "1", "2", "3", "4", "5", "6", "7", "8", "9"}

\* regex.test(password): some character of the password is in the class
test(class, password) == \E i \in 1..Len(password) : password[i] \in class

\* the length test accepts a password one character short
validatePasswordMin7(password) ==
  IF Len(password) < 7
  THEN [valid |-> FALSE, message |-> "Password must be at least 8 characters"]
  ELSE IF ~test(UpperCase, password) \/ ~test(LowerCase, password) \/ ~test(Digits, password)
       THEN [valid |-> FALSE, message |-> "Password must contain uppercase, lowercase, and numbers"]
       ELSE [valid |-> TRUE]

\* validatePassword(password), lines 208-226; a password is its sequence of
\* characters, and the result has a message field only when the code sets one
validatePassword(password) ==
  IF Len(password) < 8
  THEN [valid |-> FALSE, message |-> "Password must be at least 8 characters"]
  ELSE LET hasUpperCase == test(UpperCase, password)
           hasLowerCase == test(LowerCase, password)
           hasNumber == test(Digits, password)
       IN IF ~hasUpperCase \/ ~hasLowerCase \/ ~hasNumber
          THEN [valid |-> FALSE, message |-> "Password must contain uppercase, lowercase, and numbers"]
          ELSE [valid |-> TRUE]

NoValidation == [pc |-> "idle", password |-> <<>>, result |-> [valid |-> FALSE]]

(* ------------------------------ actions -------------------------------- *)
InitCore ==
  /\ ws = NULL
  /\ sock = [s \in Sockets |-> "NONE"]
  /\ messageQueue = <<>>
  /\ reconnectAttempts = 0
  /\ reconnectTimeout = NoTimer
  /\ wire = <<>>
  /\ accepted = <<>>
  /\ nSends = 0
  /\ messageHandlers = {<<"balance_update", PushListener>>}
  /\ waits = [w \in WaitIds |-> FreeWait]
  /\ nWaits = 0
  /\ first = [w \in WaitIds |-> NoMsg]
  /\ fired = [w \in WaitIds |-> FALSE]
  /\ authInProgress = FALSE
  /\ authPromise = NULL
  /\ hs = [h \in HsIds |-> IdleHs]
  /\ nHs = 0
  /\ now = TickMs
  /\ balanceCache = [a \in Assets |-> NoEntry]
  /\ bc = [c \in CallIds |-> IdleCall]
  /\ nCalls = 0
  /\ cb = <<>>
  /\ storage = EmptyStorage
  /\ storageQueue = <<>>
  /\ sk = [i \in OpIds |-> IdleOp]
  /\ nOps = 0
  /\ nKeys = 0
  /\ conv = NoConversion
  /\ pw = NoValidation
  /\ observers = [k \in ObserverIds |-> "free"]
  /\ delivered = NoDelivery

\* the state after construction; the specifications differ in the histories they keep
Init == InitCore /\ recording = {"wire", "accepted"} /\ window = FALSE

\* the transport in a page and in the service worker
InitWS == InitCore /\ recording = {"wire", "accepted"} /\ window \in BOOLEAN

InitWait == InitCore /\ recording = {"waits"} /\ window = FALSE

InitAuth == InitCore /\ recording = {} /\ window \in BOOLEAN

InitBal == InitCore /\ recording = {"wire"} /\ window = FALSE

\* a caller (startup, heartbeat alarm) invokes connect()
Connect ==
  /\ CanConnect(TState)
  /\ SetT(connect(TState))
  /\ UNCHANGED <<nSends, dvars, avars, bvars, kvars, ovars>>

\* a caller outside the core invokes send(m)
Send ==
  /\ nSends < MaxSends
  /\ CanSend(TState)
  /\ SetT(send(TState, OutMsg(nSends + 1, "app", "", 0)))
  /\ nSends' = nSends + 1
  /\ UNCHANGED <<dvars, avars, bvars, kvars, ovars>>

Disconnect ==
  /\ SetT(disconnect(TState))
  /\ UNCHANGED <<nSends, dvars, avars, bvars, kvars, ovars>>

\* socket s fires its open event
SockOpen(s) ==
  /\ sock[s] = "CONNECTING"
  /\ SetT(handleOpen([TState EXCEPT !.sock[s] = "OPEN"]))
  /\ UNCHANGED <<nSends, dvars, avars, bvars, kvars, ovars>>

\* the closing handshake of socket s starts (readyState CLOSING), no event yet
SockClosing(s) ==
  /\ sock[s] = "OPEN"
  /\ sock' = [sock EXCEPT ![s] = "CLOSING"]
  /\ UNCHANGED <<ws, messageQueue, reconnectAttempts, reconnectTimeout, wire, accepted, recording, window, nSends, dvars, avars, bvars, kvars, ovars>>

\* socket s fires its close event (after a failed connect, a server close or close())
SockClose(s) ==
  /\ sock[s] # "NONE"
  /\ SetT(handleClose([TState EXCEPT !.sock[s] = "NONE"]))
  /\ UNCHANGED <<nSends, dvars, avars, bvars, kvars, ovars>>

\* the reconnect timer fires: its callback calls connect()
ReconnectFire ==
  /\ reconnectTimeout.pending
  /\ CanConnect(TState)
  /\ SetT(connect([TState EXCEPT !.reconnectTimeout.pending = FALSE]))
  /\ UNCHANGED <<nSends, dvars, avars, bvars, kvars, ovars>>

\* history: m is the first message wait w was created for and its timer has not fired:
\* its routing key is the awaited type, or its res[0] the awaited request id
Awaited(w, m) ==
  /\ waits[w].state # "free"
  /\ ~fired[w]
  /\ first[w] = NoMsg
  /\ IF waits[w].kind = "type" THEN getMessageType(m) = waits[w].event ELSE m.res /\ m.id = waits[w].reqid

\* socket s fires a message event with data m: handleMessage(m), then the
\* continuations of the promises its handlers resolved
SockMessage(s, m) ==
  /\ sock[s] = "OPEN"
  /\ waits' = consume(dispatchWaits(messageHandlers, waits, m), owned(AState, resolvedBy(messageHandlers, waits, m)))
  /\ messageHandlers' = dispatchHandlers(messageHandlers, waits, m) \cap observerDispatch(messageHandlers, observers, m).handlers
  /\ SetA(resumeAll(AState, waiting(AState, resolvedBy(messageHandlers, waits, m)), m))
  /\ first' = IF "waits" \in recording THEN [w \in WaitIds |-> IF Awaited(w, m) THEN m ELSE first[w]] ELSE first
  /\ SetB(balanceDispatch(BState, messageHandlers, waits, m, now))
  /\ delivered' = IF "calls" \in recording THEN [data |-> "json", message |-> m, calls |-> observerCalls(messageHandlers, observers, m), notified |-> notified(messageHandlers, observers, m)] ELSE delivered
  /\ UNCHANGED <<tvars, nSends, nWaits, fired, nHs, now, nCalls, kvars, observers>>

\* the timer of wait w fires: off(event, handler), reject(Timeout), then the
\* continuation of the operation that awaited it
WaitTimeout(w) ==
  /\ waits[w].timer
  /\ waits' = [waits EXCEPT ![w] = timeoutBody(waits[w])]
  /\ messageHandlers' = off(messageHandlers, waits[w].event, w)
  /\ LET hset == waiting(AState, IF waits[w].state = "pending" THEN {w} ELSE {})
     IN SetA(IF hset = {} THEN AState ELSE timedOut(AState, CHOOSE h \in hset : TRUE, waits[w]))
  /\ fired' = IF "waits" \in recording THEN [fired EXCEPT ![w] = TRUE] ELSE fired
  /\ LET cset == callsWaiting(BState, IF waits[w].state = "pending" THEN {w} ELSE {})
         kset == channelCallsWaiting(BState, IF waits[w].state = "pending" THEN {w} ELSE {})
     IN SetB(IF cset # {} THEN afterBalanceTimeout(BState, CHOOSE c \in cset : TRUE)
             ELSE IF kset # {} THEN afterChannelTimeout(BState, CHOOSE k \in kset : TRUE)
             ELSE BState)
  /\ UNCHANGED <<tvars, nSends, nWaits, first, nHs, now, nCalls, kvars, ovars>>

\* authenticate(sessionKey, walletClient, userAddress), up to its first await; a call
\* made while authInProgress returns this.authPromise and changes nothing
Authenticate ==
  IF authInProgress
  THEN UNCHANGED vars
  ELSE /\ nHs < MaxHs
       /\ CanConnect(TState)
       /\ nHs' = nHs + 1
       /\ authInProgress' = TRUE
       /\ authPromise' = nHs + 1
       /\ hs' = [hs EXCEPT ![nHs + 1].pc = IF isConnected(TState) THEN "mkreq" ELSE "waitconn"]
       /\ SetT(connect(TState))
       /\ UNCHANGED <<nSends, dvars, bvars, kvars, ovars>>

\* mutant: waitForConnection resolves when the wait has expired
PollConnectionGoesOn(h, expired) ==
  /\ hs[h].pc = "waitconn"
  /\ SetA(IF isConnected(TState) \/ expired THEN [AState EXCEPT !.hs[h].pc = "mkreq"] ELSE AState)
  /\ UNCHANGED <<tvars, nSends, dvars, nHs, bvars, kvars, ovars>>

\* checkConnection(), run by the 100 ms timer of waitForConnection; expired is
\* Date.now() - startTime > timeout
PollConnection(h, expired) ==
  /\ hs[h].pc = "waitconn"
  /\ SetA(IF isConnected(TState) THEN [AState EXCEPT !.hs[h].pc = "mkreq"]
          ELSE IF expired THEN complete(AState, h, catch("WebSocket connection timeout"))
          ELSE AState)
  /\ UNCHANGED <<tvars, nSends, dvars, nHs, bvars, kvars, ovars>>

\* createAuthRequestMessage(authParams) settles: thrown, or the request is sent
\* and waitForMessage("auth_challenge", 10000) starts
RequestBuilt(h, ok) ==
  /\ hs[h].pc = "mkreq"
  /\ IF ok
     THEN /\ nWaits < MaxWaits
          /\ CanSend(TState)
          /\ SetT(send(TState, OutMsg(0, "auth_request", "", h)))
          /\ nWaits' = nWaits + 1
          /\ waits' = [waits EXCEPT ![nWaits + 1] = newWait("type", "auth_challenge", 0, AuthWaitMs)]
          /\ messageHandlers' = on(messageHandlers, "auth_challenge", nWaits + 1)
          /\ UNCHANGED <<first, fired>>
          /\ SetA([AState EXCEPT !.hs[h].pc = "waitchal", !.hs[h].wait = nWaits + 1, !.hs[h].sent = Append(hs[h].sent, "auth_request")])
     ELSE /\ SetA(complete(AState, h, catch("auth request error")))
          /\ UNCHANGED <<tvars, dvars>>
  /\ UNCHANGED <<nSends, nHs, bvars, kvars, ovars>>

\* createAuthVerifyMessageFromChallenge(signer, challenge) settles: the signer threw,
\* or the verify message is sent and waitForMessage("auth_success", 10000) starts
\* (challengeMessage is not read after line 141 and is dropped here)
SignDone(h, ok) ==
  /\ hs[h].pc = "signing"
  /\ IF ok
     THEN /\ nWaits < MaxWaits
          /\ CanSend(TState)
          /\ SetT(send(TState, OutMsg(0, "auth_verify", "", h)))
          /\ nWaits' = nWaits + 1
          /\ waits' = [waits EXCEPT ![nWaits + 1] = newWait("type", "auth_success", 0, AuthWaitMs)]
          /\ messageHandlers' = on(messageHandlers, "auth_success", nWaits + 1)
          /\ UNCHANGED <<first, fired>>
          /\ SetA([AState EXCEPT !.hs[h].pc = "waitsucc", !.hs[h].wait = nWaits + 1, !.hs[h].sent = Append(hs[h].sent, "auth_verify"), !.hs[h].challengeMessage = FALSE])
     ELSE /\ SetA(complete([AState EXCEPT !.hs[h].challengeMessage = FALSE], h, catch("signer error")))
          /\ UNCHANGED <<tvars, dvars>>
  /\ UNCHANGED <<nSends, nHs, bvars, kvars, ovars>>

\* logout()
Logout ==
  /\ SetT(disconnect(TState))
  /\ authInProgress' = FALSE
  /\ authPromise' = NULL
  /\ UNCHANGED <<nSends, dvars, hs, nHs, bvars, kvars, ovars>>

\* isAuthenticated()
isAuthenticated(a, t) == isConnected(t) /\ ~a.authInProgress

\* what the server may send during a handshake: a well-formed challenge, one without
\* payload, one that is not a res envelope, one whose payload lacks challenge_message,
\* one whose res[2] is 0; a well-formed auth_success, one without payload, one that
\* is not a res envelope, one whose res[2] is 0
AuthInbound ==
  { InMsg(TRUE, 0, "auth_challenge", "object", "", "", "", TRUE, 0),
    InMsg(TRUE, 0, "auth_challenge", "absent", "", "", "", FALSE, 0),
    InMsg(FALSE, 0, "", "absent", "auth_challenge", "", "", FALSE, 0),
    InMsg(TRUE, 0, "auth_challenge", "object", "", "", "", FALSE, 0),
    InMsg(TRUE, 0, "auth_success", "object", "", "", "100", FALSE, 0),
    InMsg(TRUE, 0, "auth_success", "absent", "", "", "", FALSE, 0),
    InMsg(FALSE, 0, "", "absent", "auth_success", "", "", FALSE, 0),
    InMsg(TRUE, 0, "auth_challenge", "falsy", "", "", "", FALSE, 0),
    InMsg(TRUE, 0, "auth_success", "falsy", "", "", "", FALSE, 0) }

NextWS ==
  \/ Connect
  \/ Send
  \/ Disconnect
  \/ \E s \in Sockets : SockOpen(s)
  \/ \E s \in Sockets : SockClosing(s)
  \/ \E s \in Sockets : SockClose(s)
  \/ ReconnectFire

SpecWS == InitWS /\ [][NextWS]_vars

\* socket s fires its error event: the connection has failed (readyState CLOSED),
\* its close event has not been delivered yet
SockError(s) ==
  /\ sock[s] \in {"CONNECTING", "OPEN", "CLOSING"}
  /\ SetT(handleError([TState EXCEPT !.sock[s] = "CLOSED"]))
  /\ UNCHANGED <<nSends, dvars, avars, bvars, kvars, ovars>>

\* the transport with the error events of its sockets delivered as events of their own
NextErr ==
  \/ Connect
  \/ Send
  \/ Disconnect
  \/ \E s \in Sockets : SockOpen(s)
  \/ \E s \in Sockets : SockClosing(s)
  \/ \E s \in Sockets : SockError(s)
  \/ \E s \in Sockets : SockClose(s)
  \/ ReconnectFire

SpecErr == InitWS /\ [][NextErr]_vars

InitDispatch == InitCore /\ recording = {"calls"} /\ window \in BOOLEAN

\* a caller registers a handler with on(event, handler); the handler returns, throws,
\* or unregisters the handler registered after it
On(event, behaviour) ==
  /\ \E k \in ObserverIds : observers[k] = "free"
  /\ LET k == CHOOSE x \in ObserverIds : observers[x] = "free" /\ \A y \in ObserverIds : observers[y] = "free" => x <= y
     IN /\ messageHandlers' = on(messageHandlers, event, Observer(k))
        /\ observers' = [observers EXCEPT ![k] = behaviour]
  /\ UNCHANGED <<tvars, nSends, waits, nWaits, first, fired, avars, bvars, kvars, delivered>>

\* a caller unregisters the handler of observer k with off(event, handler)
Off(event, k) ==
  /\ observers[k] # "free"
  /\ messageHandlers' = off(messageHandlers, event, Observer(k))
  /\ UNCHANGED <<tvars, nSends, waits, nWaits, first, fired, avars, bvars, kvars, ovars>>

\* socket s fires a message event whose data is the JSON text null or is not JSON:
\* getMessageType(null) or JSON.parse throws inside the try of handleMessage and the
\* outer catch (lines 111-113) logs it
SockUnparsed(s, data) ==
  /\ sock[s] = "OPEN"
  /\ delivered' = IF "calls" \in recording THEN [data |-> data, message |-> NoMsg, calls |-> {}, notified |-> {}] ELSE delivered
  /\ UNCHANGED <<tvars, nSends, dvars, avars, bvars, kvars, observers>>

\* the keys observers register under
ObservedKeys == {"auth_challenge", "balance_update", "unknown", "message"}

\* frames of each shape: a res envelope with a method, one with a method and a type
\* field, one without a method but with a type field, a typed message, an object of
\* neither shape
DispatchInbound ==
  { InMsg(TRUE, 1, "auth_challenge", "object", "", "", "", TRUE, 0),
    InMsg(TRUE, 1, "auth_challenge", "object", "balance_update", "", "", TRUE, 0),
    InMsg(TRUE, 1, "", "object", "balance_update", "", "", FALSE, 0),
    InMsg(FALSE, 0, "", "absent", "balance_update", "", "", FALSE, 0),
    NoMsg }

NextDispatch ==
  \/ \E e \in ObservedKeys, b \in {"returns", "throws", "offNext"} : On(e, b)
  \/ \E e \in ObservedKeys, k \in ObserverIds : <<e, Observer(k)>> \in messageHandlers /\ Off(e, k)
  \/ Connect
  \/ \E s \in Sockets : SockOpen(s)
  \/ \E s \in Sockets, m \in DispatchInbound : SockMessage(s, m)
  \/ \E s \in Sockets, d \in {"null", "text"} : SockUnparsed(s, d)

\* the dispatch does not depend on the global scope
InitObserve == InitCore /\ recording = {"calls"} /\ window = FALSE

SpecDispatch == InitObserve /\ [][NextDispatch]_vars

\* the transport losing its connections, with observers registered
NextCap ==
  \/ \E e \in {"message", "unknown"} : On(e, "returns")
  \/ Connect
  \/ \E s \in Sockets : SockOpen(s)
  \/ \E s \in Sockets : SockClose(s)
  \/ ReconnectFire

SpecCap == InitDispatch /\ [][NextCap]_vars

\* waitForMessage(messageType, timeout) called on its own
WaitForMessage(messageType) ==
  /\ nWaits < MaxWaits
  /\ nWaits' = nWaits + 1
  /\ waits' = [waits EXCEPT ![nWaits + 1] = newWait("type", messageType, 0, AuthWaitMs)]
  /\ messageHandlers' = on(messageHandlers, messageType, nWaits + 1)
  /\ UNCHANGED <<tvars, nSends, first, fired, avars, bvars, kvars, ovars>>

\* waitForBalanceResponse(requestId, timeout) called on its own
WaitForBalanceResponse(requestId) ==
  /\ nWaits < MaxWaits
  /\ nWaits' = nWaits + 1
  /\ waits' = [waits EXCEPT ![nWaits + 1] = newWait("reqid", "message", requestId, BalanceWaitMs)]
  /\ messageHandlers' = on(messageHandlers, "message", nWaits + 1)
  /\ UNCHANGED <<tvars, nSends, first, fired, avars, bvars, kvars, ovars>>

\* messages of both envelope shapes, of two types and two request ids, and one of no
\* known shape
WaitInbound ==
  { InMsg(TRUE, 1, "auth_challenge", "object", "", "", "", TRUE, 0),
    InMsg(TRUE, 2, "auth_success", "object", "", "", "100", FALSE, 0),
    InMsg(FALSE, 0, "", "absent", "auth_challenge", "", "", FALSE, 0),
    InMsg(TRUE, 1, "get_balance", "object", "", "", "100", FALSE, 0),
    InMsg(TRUE, 2, "", "object", "", "", "250", FALSE, 0),
    NoMsg }

NextWait ==
  \/ \E k \in {"auth_challenge", "auth_success"} : WaitForMessage(k)
  \/ \E id \in {1, 2} : WaitForBalanceResponse(id)
  \/ \E w \in WaitIds : WaitTimeout(w)
  \/ Connect
  \/ \E s \in Sockets : SockOpen(s)
  \/ \E s \in Sockets, m \in WaitInbound : SockMessage(s, m)

SpecWait == InitWait /\ [][NextWait]_vars

\* getUnifiedBalance(asset, forceRefresh), up to its await
GetUnifiedBalance(asset, forceRefresh) ==
  /\ nCalls + Len(cb) < MaxCalls
  /\ nCalls' = nCalls + 1
  /\ IF servedFromCache(BState, asset, forceRefresh, now)
     THEN /\ bc' = [bc EXCEPT ![nCalls + 1] = [IdleCall EXCEPT !.pc = "done", !.asset = asset, !.force = forceRefresh, !.result = balanceCache[asset].amount]]
          /\ UNCHANGED <<tvars, dvars>>
     ELSE /\ nWaits < MaxWaits
          /\ CanSend(TState)
          /\ SetT(send(TState, OutMsg(now, "get_balance", asset, nCalls + 1)))
          /\ nWaits' = nWaits + 1
          /\ waits' = [waits EXCEPT ![nWaits + 1] = newWait("reqid", "message", now, BalanceWaitMs)]
          /\ messageHandlers' = on(messageHandlers, "message", nWaits + 1)
          /\ bc' = [bc EXCEPT ![nCalls + 1] = [IdleCall EXCEPT !.pc = "waiting", !.asset = asset, !.force = forceRefresh, !.reqid = now, !.wait = nWaits + 1]]
          /\ UNCHANGED <<first, fired>>
  /\ UNCHANGED <<nSends, avars, now, balanceCache, cb, kvars, ovars>>

\* getChannelBalance(channelId), up to its await
GetChannelBalance(channelId) ==
  /\ Len(cb) < MaxChannelCalls
  /\ nCalls + Len(cb) < MaxCalls
  /\ nWaits < MaxWaits
  /\ CanSend(TState)
  /\ SetT(send(TState, OutMsg(now, "get_channel_balance", "", 0)))
  /\ nWaits' = nWaits + 1
  /\ waits' = [waits EXCEPT ![nWaits + 1] = newWait("reqid", "message", now, BalanceWaitMs)]
  /\ messageHandlers' = on(messageHandlers, "message", nWaits + 1)
  /\ cb' = Append(cb, ChannelCall(channelId, now, nWaits + 1))
  /\ UNCHANGED <<nSends, first, fired, avars, now, balanceCache, bc, nCalls, kvars, ovars>>

\* clearCache()
ClearCache ==
  /\ SetB(clearCache(BState))
  /\ UNCHANGED <<tvars, nSends, dvars, avars, now, nCalls, kvars, ovars>>

\* time passes
Tick ==
  /\ now < MaxTicks * TickMs
  /\ now' = now + TickMs
  /\ UNCHANGED <<tvars, nSends, dvars, avars, balanceCache, bc, nCalls, cb, kvars, ovars>>

\* what the server answers a get_channel_balance request it received: a response with
\* the request's id and the channel's amount
ChannelInbound ==
  {InMsg(TRUE, wire[i].id, "get_channel_balance", "object", "", "", ChannelAmount, FALSE, i) : i \in {j \in DOMAIN wire : wire[j].method = "get_channel_balance"}}

\* what the server may send to a client that pulls balances: for a get_balance request
\* it received, a response with the request's id and an amount, one without payload,
\* one whose res[2] is 0 and one whose payload has no balance field; the answers to
\* its channel requests; and balance_update pushes
BalanceInbound ==
  ChannelInbound
  \cup {InMsg(TRUE, wire[i].id, "get_balance", "object", "", "", PulledAmount, FALSE, i) : i \in {j \in DOMAIN wire : wire[j].method = "get_balance"}}
  \cup {InMsg(TRUE, wire[i].id, "get_balance", "absent", "", "", "", FALSE, i) : i \in {j \in DOMAIN wire : wire[j].method = "get_balance"}}
  \cup {InMsg(TRUE, wire[i].id, "get_balance", "falsy", "", "", "", FALSE, i) : i \in {j \in DOMAIN wire : wire[j].method = "get_balance"}}
  \cup {InMsg(TRUE, wire[i].id, "get_balance", "object", "", "", "", FALSE, i) : i \in {j \in DOMAIN wire : wire[j].method = "get_balance"}}
  \cup {InMsg(TRUE, 0, "balance_update", "object", "", a, PushedAmount, FALSE, 0) : a \in Assets}

NextBal ==
  \/ \E a \in Assets, f \in BOOLEAN : GetUnifiedBalance(a, f)
  \/ \E ch \in Channels : GetChannelBalance(ch)
  \/ ClearCache
  \/ Tick
  \/ \E w \in WaitIds : WaitTimeout(w)
  \/ \E s \in Sockets : SockOpen(s)
  \/ \E s \in Sockets, m \in BalanceInbound : SockMessage(s, m)

SpecBal == InitBal /\ [][NextBal]_vars

InitPush == InitCore /\ recording = {"wire", "calls"} /\ window = FALSE

\* balance_update pushes: well-formed ones, one without balance, and one that is not
\* a res envelope
PushInbound ==
  { InMsg(TRUE, 0, "balance_update", "object", "", "usd", PushedAmount, FALSE, 0),
    InMsg(TRUE, 0, "balance_update", "object", "", "usd", PulledAmount, FALSE, 0),
    InMsg(TRUE, 0, "balance_update", "object", "", "eur", PushedAmount, FALSE, 0),
    InMsg(TRUE, 0, "balance_update", "object", "", "usd", "", FALSE, 0),
    InMsg(FALSE, 0, "", "absent", "balance_update", "usd", PushedAmount, FALSE, 0) }

\* pushes arriving while balances are read and callbacks are subscribed
NextPush ==
  \/ \E b \in {"callback", "callbackThrows"} : On("balance_update", b)
  \/ \E a \in Assets : GetUnifiedBalance(a, FALSE)
  \/ ClearCache
  \/ Tick
  \/ \E s \in Sockets : SockOpen(s)
  \/ \E s \in Sockets, m \in PushInbound : SockMessage(s, m)

SpecPush == InitPush /\ [][NextPush]_vars

NextAuth ==
  \/ Authenticate
  \/ \E h \in HsIds, expired \in BOOLEAN : PollConnection(h, expired)
  \/ \E h \in HsIds, ok \in BOOLEAN : RequestBuilt(h, ok)
  \/ \E h \in HsIds, ok \in BOOLEAN : SignDone(h, ok)
  \/ \E w \in WaitIds : WaitTimeout(w)
  \/ Logout
  \/ Connect
  \/ \E s \in Sockets : SockOpen(s)
  \/ \E s \in Sockets : reconnectAttempts < MaxLosses /\ SockClose(s)
  \/ ReconnectFire
  \/ \E s \in Sockets, m \in AuthInbound : SockMessage(s, m)

SpecAuth == InitAuth /\ [][NextAuth]_vars

\* the handshakes and the balance pulls started where eventual settling is checked
MaxLiveHs == 1
MaxLiveCalls == 1

\* what the server may send while handshakes and balance pulls are pending
LiveInbound ==
  { InMsg(TRUE, 0, "auth_challenge", "object", "", "", "", TRUE, 0),
    InMsg(TRUE, 0, "auth_success", "object", "", "", "100", FALSE, 0),
    InMsg(TRUE, TickMs, "get_balance", "object", "", "", PulledAmount, FALSE, 0) }

\* handshakes and balance pulls while the connection is lost, reconnected and
\* reset by disconnect() and logout()
NextLive ==
  \/ nHs < MaxLiveHs /\ Authenticate
  \/ nCalls < MaxLiveCalls /\ GetUnifiedBalance("usd", TRUE)
  \/ \E h \in HsIds, expired \in BOOLEAN : PollConnection(h, expired)
  \/ \E h \in HsIds, ok \in BOOLEAN : RequestBuilt(h, ok)
  \/ \E h \in HsIds, ok \in BOOLEAN : SignDone(h, ok)
  \/ \E w \in WaitIds : WaitTimeout(w)
  \/ Logout
  \/ \E s \in Sockets : SockOpen(s)
  \/ \E s \in Sockets : SockClose(s)
  \/ ReconnectFire
  \/ \E s \in Sockets, m \in LiveInbound : SockMessage(s, m)

\* timers fire (setTimeout of waitForMessage, waitForBalanceResponse and
\* waitForConnection, whose wait expires as time passes) and the promises of
\* createAuthRequestMessage and of the signer settle
Fairness ==
  /\ \A w \in WaitIds : WF_vars(WaitTimeout(w))
  /\ \A h \in HsIds : WF_vars(PollConnection(h, TRUE))
  /\ \A h \in HsIds : WF_vars(\E ok \in BOOLEAN : RequestBuilt(h, ok))
  /\ \A h \in HsIds : WF_vars(\E ok \in BOOLEAN : SignDone(h, ok))

SpecLive == InitAuth /\ [][NextLive]_vars /\ Fairness

\* what the server sends in answer to the handshake messages it received: a challenge
\* for an auth request, an auth_success for a verify message
AnswerInbound ==
  {InMsg(TRUE, 0, "auth_challenge", "object", "", "", "", TRUE, i) : i \in {j \in DOMAIN wire : wire[j].method = "auth_request"}}
  \cup {InMsg(TRUE, 0, "auth_success", "object", "", "", "100", FALSE, i) : i \in {j \in DOMAIN wire : wire[j].method = "auth_verify"}}

\* handshakes whose waits time out while the server's answers are under way
NextAnswer ==
  \/ Authenticate
  \/ \E h \in HsIds, expired \in BOOLEAN : PollConnection(h, expired)
  \/ \E h \in HsIds, ok \in BOOLEAN : RequestBuilt(h, ok)
  \/ \E h \in HsIds, ok \in BOOLEAN : SignDone(h, ok)
  \/ \E w \in WaitIds : WaitTimeout(w)
  \/ \E s \in Sockets : SockOpen(s)
  \/ \E s \in Sockets, m \in AnswerInbound : SockMessage(s, m)

SpecAnswer == InitPush /\ [][NextAnswer]_vars

\* the amounts formatBalance is applied to: canonical digit strings
AmountDigits == {0, 1, 5}
ConversionAmounts == {s \in UNION {[1..n -> AmountDigits] : n \in 1..MaxDigits} : Len(s) = 1 \/ s[1] # 0}
Decimals == 0..18

\* formatBalance(amount, decimals)
FormatBalance(amount, decimals) ==
  /\ conv.pc = "idle"
  /\ conv' = [pc |-> "formatted", amount |-> amount, decimals |-> decimals, formatted |-> formatBalance(amount, decimals), parsed |-> <<>>]
  /\ UNCHANGED <<tvars, nSends, dvars, avars, bvars, ovars, storage, storageQueue, sk, nOps, nKeys, pw>>

\* parseBalance(formatted, decimals) applied to the formatted amount
ParseBalance ==
  /\ conv.pc = "formatted"
  /\ conv' = [conv EXCEPT !.pc = "parsed", !.parsed = parseBalance(conv.formatted, conv.decimals)]
  /\ UNCHANGED <<tvars, nSends, dvars, avars, bvars, ovars, storage, storageQueue, sk, nOps, nKeys, pw>>

\* the passwords validatePassword is applied to: one character of each class
\* the expressions look for and one of none, in every order and length
PwChars == {"A", "z", "0", "_"}
CandidatePasswords == UNION {[1..n -> PwChars] : n \in 0..MaxPwLen}

\* validatePassword(password)
ValidatePassword(password) ==
  /\ pw.pc = "idle"
  /\ pw' = [pc |-> "done", password |-> password, result |-> validatePassword(password)]
  /\ UNCHANGED <<tvars, nSends, dvars, avars, bvars, ovars, storage, storageQueue, sk, nOps, nKeys, conv>>

\* one call is studied per run
NextPw == pw.pc = "idle" /\ \E p \in CandidatePasswords : ValidatePassword(p)

SpecPw == Init /\ [][NextPw]_vars

NextFmt ==
  \/ \E x \in ConversionAmounts, d \in Decimals : FormatBalance(x, d)
  \/ ParseBalance

SpecFmt == Init /\ [][NextFmt]_vars

\* the keys callers hold: those a SessionKeyManager call returned
HeldKeys == {sk[i].result : i \in {j \in OpIds : sk[j].outcome = "key"}}

\* amounts as decimal strings: 50, 100, 2^53 and 2^53 + 1
SpentChoices == {<<5, 0>>, <<1, 0, 0>>, <<9, 0, 0, 7, 1, 9, 9, 2, 5, 4, 7, 4, 0, 9, 9, 2>>}
AllowanceChoices ==
  { <<>>, DefaultAllowances,
    <<[asset |-> "ytest.usd", amount |-> <<9, 0, 0, 7, 1, 9, 9, 2, 5, 4, 7, 4, 0, 9, 9, 3>>]>> }

\* generateSessionKey(allowances)
GenerateSessionKey(allowances) ==
  /\ nOps < MaxOps
  /\ nOps' = nOps + 1
  /\ nKeys' = nKeys + 1
  /\ sk' = [sk EXCEPT ![nOps + 1] = [IdleOp EXCEPT !.kind = "generate", !.pc = "done", !.outcome = "key",
                                                   !.result = generateSessionKey(allowances, nKeys + 1, now)]]
  /\ UNCHANGED <<tvars, nSends, dvars, avars, bvars, ovars, storage, storageQueue, conv, pw>>

\* saveToStorage(sessionKey, password), up to its await
SaveToStorage(sessionKey, password) ==
  /\ nOps < MaxOps
  /\ nOps' = nOps + 1
  /\ SetK(saveToStorage([KState EXCEPT !.sk[nOps + 1] = [IdleOp EXCEPT !.kind = "save", !.pc = "saving", !.key = sessionKey, !.password = password]],
                        nOps + 1, sessionKey, password))
  /\ UNCHANGED <<tvars, nSends, dvars, avars, bvars, ovars, conv, pw>>

\* loadFromStorage(password), up to its await of chrome.storage.local.get
LoadFromStorage(password) ==
  /\ nOps < MaxOps
  /\ nOps' = nOps + 1
  /\ sk' = [sk EXCEPT ![nOps + 1] = [IdleOp EXCEPT !.kind = "load", !.pc = "getting", !.password = password]]
  /\ storageQueue' = Append(storageQueue, StorageRequest(nOps + 1, "get", NoCipher, 0))
  /\ UNCHANGED <<tvars, nSends, dvars, avars, bvars, ovars, storage, nKeys, conv, pw>>

\* needsRotation(sessionKey, spentAmount, asset)
NeedsRotation(sessionKey, spentAmount, asset) ==
  /\ nOps < MaxOps
  /\ nOps' = nOps + 1
  /\ sk' = [sk EXCEPT ![nOps + 1] = [IdleOp EXCEPT !.kind = "needsRotation", !.pc = "done", !.key = sessionKey, !.spentAmount = spentAmount, !.asset = asset,
                                                   !.called = now, !.outcome = "boolean", !.flag = needsRotation(sessionKey, spentAmount, asset, now)]]
  /\ UNCHANGED <<tvars, nSends, dvars, avars, bvars, ovars, storage, storageQueue, nKeys, conv, pw>>

\* rotateIfNeeded(sessionKey, spentAmount, asset, password), up to its await
RotateIfNeeded(sessionKey, spentAmount, asset, password) ==
  /\ nOps < MaxOps
  /\ nOps' = nOps + 1
  /\ SetK(rotateIfNeeded(KState, nOps + 1, sessionKey, spentAmount, asset, password, now))
  /\ UNCHANGED <<tvars, nSends, dvars, avars, bvars, ovars, conv, pw>>

\* clearFromStorage(), up to its await
ClearFromStorage ==
  /\ nOps < MaxOps
  /\ nOps' = nOps + 1
  /\ SetK(clearFromStorage([KState EXCEPT !.sk[nOps + 1] = [IdleOp EXCEPT !.kind = "clear", !.pc = "clearing"]], nOps + 1))
  /\ UNCHANGED <<tvars, nSends, dvars, avars, bvars, ovars, conv, pw>>

\* the oldest pending chrome.storage.local request completes
StorageDone ==
  /\ storageQueue # <<>>
  /\ SetK(storageDone(KState, now))
  /\ UNCHANGED <<tvars, nSends, dvars, avars, bvars, ovars, nOps, conv, pw>>

\* the stored ciphertext is damaged outside the program
StorageCorrupted ==
  /\ storage.encryptedSessionKey.present
  /\ ~storage.encryptedSessionKey.corrupt
  /\ storage' = [storage EXCEPT !.encryptedSessionKey.corrupt = TRUE]
  /\ UNCHANGED <<tvars, nSends, dvars, avars, bvars, ovars, storageQueue, sk, nOps, nKeys, conv, pw>>

\* half the lifetime of a session key passes
Elapse ==
  /\ now < TickMs + MaxElapses * (SESSION_KEY_DURATION \div 2)
  /\ now' = now + SESSION_KEY_DURATION \div 2
  /\ UNCHANGED <<tvars, nSends, dvars, avars, balanceCache, bc, nCalls, cb, kvars, ovars>>

NextRot ==
  \/ \E a \in AllowanceChoices : GenerateSessionKey(a)
  \/ Elapse
  \/ \E k \in HeldKeys, spent \in SpentChoices, asset \in KeyAssets : NeedsRotation(k, spent, asset)

SpecRot == Init /\ [][NextRot]_vars

NextKey ==
  \/ \E a \in AllowanceChoices : GenerateSessionKey(a)
  \/ \E k \in HeldKeys, p \in Passwords : SaveToStorage(k, p)
  \/ \E p \in Passwords : LoadFromStorage(p)
  \/ ClearFromStorage
  \/ StorageDone
  \/ StorageCorrupted
  \/ Elapse

SpecKey == Init /\ [][NextKey]_vars

NextRotate ==
  \/ \E a \in AllowanceChoices : GenerateSessionKey(a)
  \/ \E k \in HeldKeys \cup {NoKey}, spent \in {<<5, 0>>, <<1, 0, 0>>}, asset \in KeyAssets, p \in Passwords : RotateIfNeeded(k, spent, asset, p)
  \/ StorageDone
  \/ Elapse

SpecRotate == Init /\ [][NextRotate]_vars

\* persist, load, rotateIfNeeded and clear in any order
NextStore ==
  \/ \E a \in {DefaultAllowances} : GenerateSessionKey(a)
  \/ \E k \in HeldKeys, p \in Passwords : SaveToStorage(k, p)
  \/ \E p \in Passwords : LoadFromStorage(p)
  \/ \E k \in HeldKeys \cup {NoKey}, p \in Passwords : RotateIfNeeded(k, <<5, 0>>, "ytest.usd", p)
  \/ ClearFromStorage
  \/ StorageDone
  \/ Elapse

SpecStore == Init /\ [][NextStore]_vars

(* C1: the messages passed to send() and not discarded by disconnect() are, in   *)
(* call order, exactly the messages transmitted so far followed by the messages  *)
(* still queued: a queued message is transmitted once, in order, ahead of every  *)
(* later send, at the next open.                                                 *)
C1_QueuedThenFlushedInOrder == wire \o messageQueue = accepted
(* the handshakes that have started and not completed *)
InFlight == {h \in HsIds : hs[h].pc \notin {"idle", "done"}}

(* C2: while an authenticate call is in flight, no step starts a second        *)
(* handshake: a further authenticate call only joins the one in flight.        *)
C2_NoSecondHandshake == [][InFlight # {} => nHs' = nHs]_vars

(* C3: a step that completes a handshake, with success or with any failure,    *)
(* leaves the single-flight guard released (authInProgress false, authPromise  *)
(* null), so the next authenticate call starts a fresh handshake.              *)
C3_GuardReleasedOnCompletion ==
  [][\A h \in HsIds : (hs[h].pc # "done" /\ hs'[h].pc = "done") => (~authInProgress' /\ authPromise' = NULL)]_vars

C3_Witness ==
  /\ hs[1].pc = "done"
  /\ ~hs[1].result.success
  /\ hs[2].pc = "done"
  /\ hs[2].result.success

(* the reasons a failed handshake reports *)
FailureReasons ==
  { "WebSocket connection timeout", "auth request error", "Timeout waiting for auth_challenge",
    "Invalid auth_challenge response", "signer error", "Timeout waiting for auth_success",
    "Invalid auth_success response", "TypeError" }

(* C4: authenticate never rejects: a handshake that has ended returned a       *)
(* result object, {success: true, balance} with the balance of the payload     *)
(* exactly when it received the challenge and then a well-formed auth_success, *)
(* and otherwise, a malformed success payload included, {success: false,       *)
(* error} with one of the failure reasons; a handshake that has not ended has  *)
(* no result.                                                                  *)
C4_NeverRejects ==
  \A h \in HsIds :
    IF hs[h].pc = "done"
    THEN /\ hs[h].result.kind = "returned"
         /\ IF hs[h].got = <<"auth_challenge", "auth_success">>
            THEN hs[h].result = Returned(TRUE, "", "100")
            ELSE ~hs[h].result.success /\ hs[h].result.error \in FailureReasons /\ hs[h].result.balance = ""
    ELSE hs[h].result = NoResult

(* C5: when the timer of the wait for auth_challenge (auth_success) fires      *)
(* before a message of that type was dispatched, the handshake has ended with  *)
(* {success: false, error: "Timeout waiting for auth_challenge"} (..."for      *)
(* auth_success"), the wait was armed with 10000 ms, and after a challenge     *)
(* timeout no verify message was sent.                                         *)
C5_TimeoutFails ==
  \A h \in HsIds :
    (hs[h].wait # 0 /\ waits[hs[h].wait].state = "rejected") =>
      /\ hs[h].pc = "done"
      /\ waits[hs[h].wait].timeout = 10000
      /\ IF hs[h].sent = <<"auth_request">>
         THEN hs[h].result = Returned(FALSE, "Timeout waiting for auth_challenge", "")
         ELSE /\ hs[h].sent = <<"auth_request", "auth_verify">>
              /\ hs[h].result = Returned(FALSE, "Timeout waiting for auth_success", "")

C5_Witness ==
  /\ hs[1].pc = "done"
  /\ hs[1].result.error = "Timeout waiting for auth_challenge"
  /\ hs[2].pc = "done"
  /\ hs[2].result.error = "Timeout waiting for auth_success"

(* C6: a wait settles once: it is resolved exactly when a matching message     *)
(* (routing key = awaited type for waitForMessage) was dispatched before its   *)
(* timer fired, and then with the first such message; it is rejected exactly   *)
(* when its timer fired before any matching message; resolve/reject is invoked *)
(* at most once.                                                               *)
C6_SettlesOnceWithFirstMatch ==
  \A w \in WaitIds :
    /\ waits[w].settles <= 1
    /\ (waits[w].state = "resolved") = (first[w] # NoMsg)
    /\ waits[w].state = "resolved" => waits[w].value = first[w]
    /\ (waits[w].state = "resolved" /\ waits[w].kind = "type") => getMessageType(waits[w].value) = waits[w].event
    /\ (waits[w].state = "rejected") = (fired[w] /\ first[w] = NoMsg)
    /\ (waits[w].state = "pending") = (waits[w].settles = 0 /\ nWaits >= w)

C6_Witness ==
  \E v, w \in WaitIds :
    /\ waits[v].kind = "type"
    /\ waits[v].state = "resolved"
    /\ waits[w].kind = "type"
    /\ waits[w].state = "rejected"
    /\ waits[w].event = waits[v].event
    /\ v < w

(* the one-shot handlers present in the registry *)
OneShotHandlers == {p \in messageHandlers : p[2] \in WaitIds}

(* C7: once a wait has settled, its handler is not in the registry and its     *)
(* timer is not pending; every registered one-shot handler belongs to a wait   *)
(* that has not settled, so there are never more of them than pending waits.   *)
C7_HandlerAndTimerReleased ==
  /\ \A w \in WaitIds : waits[w].state \in {"resolved", "rejected"} => (<<waits[w].event, w>> \notin messageHandlers /\ ~waits[w].timer)
  /\ \A p \in OneShotHandlers : waits[p[2]].state = "pending" /\ waits[p[2]].event = p[1]
  /\ Cardinality(OneShotHandlers) <= Cardinality({w \in WaitIds : waits[w].state = "pending"})

C7_Witness ==
  \E v, w \in WaitIds :
    /\ waits[v].kind = "type"
    /\ waits[v].state = "resolved"
    /\ waits[w].kind = "reqid"
    /\ waits[w].state = "rejected"
    /\ \E u \in WaitIds : waits[u].kind = "reqid" /\ waits[u].state = "resolved"
(* C8: a call that returned a pulled amount took it from the response to the   *)
(* request this call itself sent, which is a request for the call's own asset. *)
C8_ResolvedByOwnResponse ==
  \A c \in CallIds :
    (bc[c].pc = "done" /\ bc[c].answer # 0) =>
      (wire[bc[c].answer].by = c /\ wire[bc[c].answer].asset = bc[c].asset)

(* C9: the request ids of any two pull requests issued by the process, by      *)
(* getUnifiedBalance or by getChannelBalance, differ, also when both are       *)
(* issued within the same clock instant.                                       *)
C9_FreshRequestIds ==
  /\ \A c, d \in CallIds : (c # d /\ bc[c].reqid # 0 /\ bc[d].reqid # 0) => bc[c].reqid # bc[d].reqid
  /\ \A c \in CallIds, k \in DOMAIN cb : bc[c].reqid # 0 => bc[c].reqid # cb[k].reqid
  /\ \A k, l \in DOMAIN cb : k # l => cb[k].reqid # cb[l].reqid

(* C10: a getUnifiedBalance(asset, forceRefresh) call sends nothing (neither   *)
(* transmits nor queues a message) if and only if forceRefresh is false and    *)
(* the cache holds an entry for asset younger than 30000 ms, and it then       *)
(* returns at once with that entry's amount.                                   *)
C10_CacheHitIffFresh ==
  [][nCalls' = nCalls + 1 =>
       LET c == nCalls + 1
           e == balanceCache[bc'[c].asset]
           silent == wire' = wire /\ messageQueue' = messageQueue
       IN /\ silent = (~bc'[c].force /\ e.present /\ now - e.timestamp < 30000)
          /\ silent => (bc'[c].pc = "done" /\ bc'[c].result = e.amount /\ balanceCache' = balanceCache)]_vars

(* a pull returned "100" for an asset and a later call for it, 20 s after the  *)
(* entry was written, was served that amount from the cache                    *)
C10_Witness ==
  /\ bc[1].pc = "done"
  /\ bc[1].answer # 0
  /\ bc[2].pc = "done"
  /\ bc[2].asset = bc[1].asset
  /\ bc[2].reqid = 0
  /\ bc[2].result = "100"
  /\ balanceCache[bc[2].asset].timestamp = bc[1].reqid
  /\ now - balanceCache[bc[2].asset].timestamp = 2 * TickMs

(* C11: getUnifiedBalance never rejects: a call that has ended returned an      *)
(* amount; and a step that ends a call whose pull failed (its wait timed out,  *)
(* or was resolved by a malformed response: one without payload, with a falsy  *)
(* payload or with a payload without balance, so that the call returned no     *)
(* amount a response carried) returns the amount of the asset's cache entry,   *)
(* whatever its age, or "0" when there is none, and leaves the cache as it was.*)
C11_FailedPullFallsBack ==
  /\ [](\A c \in CallIds : bc[c].pc = "done" => bc[c].result \in {"0", PulledAmount, PushedAmount, ChannelAmount})
  /\ [][\A c \in CallIds :
          (/\ bc[c].pc = "waiting" /\ bc'[c].pc = "done"
           /\ ~(bc'[c].answer # 0 /\ bc'[c].result \in {PulledAmount, ChannelAmount})) =>
            /\ balanceCache' = balanceCache
            /\ bc'[c].result = IF balanceCache[bc[c].asset].present THEN balanceCache[bc[c].asset].amount ELSE "0"]_vars

(* the delays min(1000 * 2^n, 30000) for n = 1..10, written out *)
BackoffDelays == <<2000, 4000, 8000, 16000, 30000, 30000, 30000, 30000, 30000, 30000>>

(* C12: a step that arms the reconnect timer for the n-th consecutive           *)
(* reconnection attempt (n from 1 since the last open or disconnect) arms it   *)
(* with min(1000 * 2^n, 30000) ms, n in 1..10: never more than 30000 ms and    *)
(* never less than the delay of attempt n - 1.                                 *)
C12_BackoffDelay ==
  [][(reconnectAttempts' # reconnectAttempts /\ reconnectAttempts' # 0 /\ reconnectTimeout'.pending) =>
       /\ reconnectAttempts' = reconnectAttempts + 1
       /\ reconnectAttempts' \in 1..10
       /\ reconnectTimeout'.delay = BackoffDelays[reconnectAttempts']
       /\ reconnectTimeout'.delay <= 30000
       /\ reconnectAttempts >= 1 => reconnectTimeout.delay <= reconnectTimeout'.delay]_vars

(* the tenth consecutive attempt is scheduled, at the capped delay *)
C12_Witness ==
  /\ reconnectAttempts = 10
  /\ reconnectTimeout.pending
  /\ reconnectTimeout.delay = 30000

(* C13: the reconnect-attempt counter stays within 0..10; with the counter at  *)
(* 10 a close event leaves the counter and the reconnect timer as they are (no *)
(* timer is armed, so no 11th attempt follows); and the counter decreases only *)
(* to 0, in a step where a socket opens or disconnect() runs.                  *)
C13_AttemptsBounded ==
  /\ [](reconnectAttempts \in 0..10)
  /\ [][(reconnectAttempts = 10 /\ \E s \in Sockets : sock[s] # "NONE" /\ sock'[s] = "NONE") =>
          (reconnectAttempts' = 10 /\ reconnectTimeout' = reconnectTimeout)]_vars
  /\ [][reconnectAttempts' < reconnectAttempts =>
          /\ reconnectAttempts' = 0
          /\ \/ \E s \in Sockets : sock[s] = "CONNECTING" /\ sock'[s] = "OPEN"
             \/ ws' = NULL /\ messageQueue' = <<>> /\ ~reconnectTimeout'.set]_vars

(* ten attempts were made, the last connection closed and nothing is scheduled *)
C13_Witness ==
  /\ reconnectAttempts = 10
  /\ ~reconnectTimeout.pending
  /\ ws = NULL
  /\ \A s \in Sockets : sock[s] = "NONE"

(* the connections the transport created that are connecting or open *)
LiveSockets == {s \in Sockets : sock[s] \in {"CONNECTING", "OPEN"}}

(* C14: at every moment at most one connection created by the transport is in *)
(* the connecting or open state.                                               *)
C14_SingleConnection == Cardinality(LiveSockets) <= 1

(* C15: in the state a disconnect() step leaves, no reconnect timer is pending *)
(* (the handle is null), this.ws is null and the connection it held was asked  *)
(* to close (it is closing, or closed already), the outbound queue is empty    *)
(* and the attempt counter is 0.                                               *)
C15_DisconnectResets ==
  [][Disconnect =>
       /\ reconnectTimeout' = NoTimer
       /\ ws' = NULL
       /\ ws # NULL => sock'[ws] \in {"CLOSING", "CLOSED"}
       /\ messageQueue' = <<>>
       /\ reconnectAttempts' = 0]_vars

(* the state disconnect() left after a message had been queued: the message    *)
(* was discarded, never transmitted, and the connection is closing             *)
C15_Witness ==
  /\ nSends = 1
  /\ wire = <<>>
  /\ accepted = <<>>
  /\ messageQueue = <<>>
  /\ ws = NULL
  /\ reconnectTimeout = NoTimer
  /\ reconnectAttempts = 0
  /\ \E s \in Sockets : sock[s] = "CLOSING"

(* C20: parseBalance(formatBalance(x, d), d) = x for every non-negative        *)
(* integer amount x and every precision d in 0..18: the amount parsed back     *)
(* from the formatted text is the amount that was formatted.                   *)
C20_RoundTrip == conv.pc = "parsed" => (conv.decimals \in 0..18 /\ conv.parsed = conv.amount)

(* 105 at two decimals was formatted as 1.05 and parsed back *)
C20_Witness ==
  /\ conv.pc = "parsed"
  /\ conv.amount = <<1, 0, 5>>
  /\ conv.decimals = 2
  /\ conv.formatted = <<1, Dot, 0, 5>>

(* C16: when the get of a loadFromStorage(password) call finds a ciphertext    *)
(* that decrypts under password to a key whose expiresAt is in the past, the   *)
(* call asks for the stored entry to be removed and, once both stored fields   *)
(* are gone, returns null; and a key a load returns is not expired when it is  *)
(* returned (so not at the time of the call either).                           *)
C16_ExpiredLoadClears ==
  /\ [][\A i \in OpIds :
          (/\ sk[i].kind = "load" /\ sk[i].pc = "getting" /\ sk'[i].pc # "getting"
           /\ storage.encryptedSessionKey.present
           /\ storage.encryptedSessionKey.password = sk[i].password
           /\ ~storage.encryptedSessionKey.corrupt
           /\ now > storage.encryptedSessionKey.key.expiresAt) =>
            (/\ sk'[i].pc = "clearing"
             /\ sk'[i].outcome = "none"
             /\ storageQueue' # <<>>
             /\ storageQueue'[Len(storageQueue')] = StorageRequest(i, "remove", NoCipher, 0))]_vars
  /\ [][\A i \in OpIds : (sk[i].kind = "load" /\ sk[i].pc = "clearing" /\ sk'[i].pc = "done") =>
          (sk'[i].outcome = "null" /\ storage' = EmptyStorage)]_vars
  /\ [][\A i \in OpIds : (sk[i].kind = "load" /\ sk[i].outcome # "key" /\ sk'[i].outcome = "key") =>
          sk'[i].result.expiresAt >= now]_vars

(* a load found an expired key, returned null, and the entry is gone *)
C16_Witness ==
  \E i \in OpIds :
    /\ sk[i].kind = "load"
    /\ sk[i].pc = "done"
    /\ sk[i].why = "expired"
    /\ sk[i].outcome = "null"
    /\ storage = EmptyStorage

(* C17: a loadFromStorage call whose decryption failed (wrong password or      *)
(* damaged ciphertext) does not end with the "no key" outcome null.            *)
C17_DecryptFailureDistinct ==
  \A i \in OpIds : (sk[i].kind = "load" /\ sk[i].why = "decrypt") => sk[i].outcome # "null"

(* spent >= amount for two decimal strings, compared as exact magnitudes *)
DecimalGeq(spent, amount) == bitsGeq(decimalBits(spent), decimalBits(amount))

(* C18: needsRotation(key, spent, asset) is true if and only if the key is     *)
(* expired at the call (now > expiresAt) or the key has an allowance entry for *)
(* asset and spent >= that entry's amount.                                     *)
C18_NeedsRotationIff ==
  \A i \in OpIds :
    sk[i].kind = "needsRotation" =>
      sk[i].flag = (\/ sk[i].called > sk[i].key.expiresAt
                    \/ \E j \in DOMAIN sk[i].key.allowances :
                         /\ sk[i].key.allowances[j].asset = sk[i].asset
                         /\ DecimalGeq(sk[i].spentAmount, sk[i].key.allowances[j].amount))

(* C19: a rotateIfNeeded(key, spent, asset, password) call made when rotation  *)
(* is needed (no key, or needsRotation(key, spent, asset)) generates a new key *)
(* with the previous key's allowances, or the default set when there was no    *)
(* key, asks for it to be stored under password, and when the write has        *)
(* replaced the stored entry returns it; made when no rotation is needed it    *)
(* returns the input key at once and issues no storage request.                *)
C19_RotateIfNeeded ==
  /\ [][(nOps' = nOps + 1 /\ sk'[nOps + 1].kind = "rotate") =>
          LET c == sk'[nOps + 1]
          IN IF c.key = NoKey \/ needsRotation(c.key, c.spentAmount, c.asset, now)
             THEN /\ c.pc = "saving"
                  /\ c.outcome = "none"
                  /\ c.made.privateKey = nKeys + 1
                  /\ c.made.expiresAt = now + 3600000
                  /\ c.made.allowances = IF c.key = NoKey THEN <<[asset |-> "ytest.usd", amount |-> <<1, 0, 0>>]>> ELSE c.key.allowances
                  /\ storageQueue' = Append(storageQueue, StorageRequest(nOps + 1, "set", encrypt(c.made, c.password), c.made.expiresAt))
             ELSE /\ c.pc = "done"
                  /\ c.outcome = "key"
                  /\ c.result = c.key
                  /\ storageQueue' = storageQueue
                  /\ storage' = storage]_vars
  /\ [][\A i \in OpIds : (sk[i].kind = "rotate" /\ sk[i].pc = "saving" /\ sk'[i].pc = "done") =>
          /\ sk'[i].outcome = "key"
          /\ sk'[i].result = sk[i].made
          /\ storage' = [encryptedSessionKey |-> encrypt(sk[i].made, sk[i].password), sessionKeyExpiry |-> sk[i].made.expiresAt]]_vars

(* a key with an allowance was rotated: the new key has the same allowances,   *)
(* replaced the stored entry and was returned; another call returned its input *)
C19_Witness ==
  \E i, j \in OpIds :
    /\ sk[i].kind = "rotate"
    /\ sk[i].pc = "done"
    /\ sk[i].key # NoKey
    /\ sk[i].result.privateKey # sk[i].key.privateKey
    /\ sk[i].result.allowances = sk[i].key.allowances
    /\ sk[i].key.allowances # <<>>
    /\ storage.encryptedSessionKey.key = sk[i].result
    /\ sk[j].kind = "rotate"
    /\ sk[j].pc = "done"
    /\ sk[j].result = sk[j].key

(* C21: validatePassword(p) returns valid exactly when p has at least 8      *)
(* characters and holds an uppercase letter, a lowercase letter and a digit;  *)
(* every invalid result carries a message; the call changes neither the       *)
(* stored blob, nor the pending storage requests, nor any other call's state. *)
C21_ValidatePassword ==
  [][(pw.pc = "idle" /\ pw'.pc = "done") =>
       LET p == pw'.password
           r == pw'.result
       IN /\ r.valid <=> /\ Len(p) >= 8
                         /\ \E i \in 1..Len(p) : p[i] \in UpperCase
                         /\ \E i \in 1..Len(p) : p[i] \in LowerCase
                         /\ \E i \in 1..Len(p) : p[i] \in Digits
          /\ ~r.valid => ("message" \in DOMAIN r /\ r.message # "")
          /\ UNCHANGED <<storage, storageQueue, sk, conv, tvars, dvars, avars, bvars>>]_vars

\* an 8-character password with all three classes is accepted, with no message
C21_Witness ==
  /\ pw.pc = "done"
  /\ pw.password = <<"A", "z", "0", "_", "_", "_", "_", "_">>
  /\ pw.result = [valid |-> TRUE]


(* C22: in the flush an open event triggers, a queued message leaves the      *)
(* queue only by being transmitted: after the step the transmitted messages    *)
(* followed by the queued ones are what they were before it, so a flush that   *)
(* finds the current connection not open leaves the queue as it was.           *)
C22_FlushKeepsUntransmitted ==
  [][(\E s \in Sockets : sock[s] = "CONNECTING" /\ sock'[s] = "OPEN") => wire' \o messageQueue' = wire \o messageQueue]_vars


(* C23: send(message) hands the message to the socket at once, without        *)
(* queueing it, when the connection is open; otherwise it appends the message  *)
(* to the tail of the queue and calls connect(), which creates a connection,   *)
(* exactly when there is no connection object or a closed one: a connection    *)
(* that is connecting or closing is left alone and no connection is created.   *)
C23_SendOrQueue ==
  [][nSends' = nSends + 1 =>
       LET m == OutMsg(nSends + 1, "app", "", 0)
       IN IF isConnected(TState)
          THEN wire' = Append(wire, m) /\ messageQueue' = messageQueue /\ ws' = ws /\ sock' = sock
          ELSE /\ messageQueue' = Append(messageQueue, m)
               /\ wire' = wire
               /\ IF ws = NULL \/ sock[ws] = "CLOSED"
                  THEN ws' \in FreeSockets(TState) /\ sock' = [sock EXCEPT ![ws'] = "CONNECTING"]
                  ELSE ws' = ws /\ sock' = sock]_vars

\* a message sent while the current connection is closing: queued, no connect()
C23_Witness ==
  /\ nSends = 1
  /\ ws = 1
  /\ sock = <<"CLOSING", "NONE">>
  /\ messageQueue = <<OutMsg(1, "app", "", 0)>>
  /\ wire = <<>>


(* C24: after a close event of a connection, and after an error event of a    *)
(* connection alike, the transport holds no connection (Disconnected) and,     *)
(* unless the attempt limit was reached, a reconnection attempt is scheduled:  *)
(* the counter is one higher and the reconnect timer is pending.               *)
C24_CloseOrErrorReconnects ==
  [][\A s \in Sockets :
       (\/ sock[s] # "NONE" /\ sock'[s] = "NONE"
        \/ sock[s] \in {"CONNECTING", "OPEN", "CLOSING"} /\ sock'[s] = "CLOSED")
       => /\ ws' = NULL
          /\ reconnectAttempts < maxReconnectAttempts =>
               (reconnectAttempts' = reconnectAttempts + 1 /\ reconnectTimeout'.pending)]_vars


(* C26: for every inbound message, also one that is not JSON or is the JSON     *)
(* value null (routing key "unknown"), every handler registered for the         *)
(* message's routing key and every handler registered for "message" when the    *)
(* message arrives is invoked with it, whether or not another handler invoked   *)
(* for the same message throws.                                                 *)
C26_EveryHandlerInvoked ==
  [][delivered' # delivered =>
       LET m == delivered'.message
           routingKey == IF delivered'.data = "json" THEN getMessageType(m) ELSE "unknown"
       IN \A k \in ObserverIds : \A key \in {routingKey, "message"} :
            <<key, Observer(k)>> \in messageHandlers => <<key, k>> \in delivered'.calls]_vars


(* C27: the routing key of an inbound message is the method name at index 1 of  *)
(* its res array when it is a res envelope, else its type field when present,   *)
(* else "unknown"; every received message, also one of neither known shape, is  *)
(* dispatched to the handlers registered for its routing key and for "message", *)
(* and to no other: none is dropped.                                            *)
C27_RoutingKey ==
  [][delivered' # delivered =>
       LET m == delivered'.message
           parsed == delivered'.data = "json"
           key == IF parsed /\ m.res /\ m.method # "" THEN m.method
                  ELSE IF parsed /\ m.type # "" THEN m.type
                  ELSE "unknown"
       IN delivered'.calls = {c \in {key, "message"} \X ObserverIds : <<c[1], Observer(c[2])>> \in messageHandlers}]_vars


(* C25: when a connection closes with the reconnect-attempt counter at its      *)
(* limit, no new attempt is scheduled and the terminal failure is reported      *)
(* to the observers registered with the transport: some registered handler is   *)
(* invoked in that step.                                                        *)
C25_TerminalFailureReported ==
  [][(reconnectAttempts = maxReconnectAttempts /\ \E s \in Sockets : sock[s] # "NONE" /\ sock'[s] = "NONE") =>
       /\ reconnectAttempts' = maxReconnectAttempts
       /\ reconnectTimeout' = reconnectTimeout
       /\ (\E k \in ObserverIds : observers[k] # "free") => (delivered' # delivered /\ delivered'.calls # {})]_vars


(* the handshake messages in protocol order *)
HandshakeSends == <<"auth_request", "auth_verify">>
HandshakeReceipts == <<"auth_challenge", "auth_success">>

(* C28: in every handshake the steps occur in the order request sent, challenge *)
(* received, verify sent, success received: what it has sent and received are   *)
(* initial parts of those sequences, a receipt never runs ahead of the send it  *)
(* answers and a send never more than one ahead of the receipts (no step is     *)
(* skipped or repeated), a success result has both receipts behind it, and a    *)
(* handshake that has ended, failed or not, sends and receives nothing more.    *)
C28_HandshakeOrder ==
  /\ [](\A h \in HsIds :
          /\ hs[h].sent = SubSeq(HandshakeSends, 1, Len(hs[h].sent))
          /\ hs[h].got = SubSeq(HandshakeReceipts, 1, Len(hs[h].got))
          /\ Len(hs[h].got) <= Len(hs[h].sent)
          /\ Len(hs[h].sent) <= Len(hs[h].got) + 1
          /\ (hs[h].pc = "done" /\ hs[h].result.success) => (hs[h].sent = HandshakeSends /\ hs[h].got = HandshakeReceipts))
  /\ [][\A h \in HsIds : hs[h].pc = "done" => (hs'[h].sent = hs[h].sent /\ hs'[h].got = hs[h].got)]_vars

\* a handshake that failed after its verify message: the success never came
C28_Witness ==
  /\ hs[1].pc = "done"
  /\ hs[1].sent = HandshakeSends
  /\ hs[1].got = <<"auth_challenge">>
  /\ hs[1].result = Returned(FALSE, "Timeout waiting for auth_success", "")


(* C29: a handshake that starts with the transport not open waits for it: it    *)
(* goes on to build its request only in a step that finds the transport open,   *)
(* and if the wait of 5000 ms expires first it ends there, with the result       *)
(* {success: false, error: "WebSocket connection timeout"}, having passed no     *)
(* message to send() and with no message of its own in the outbound queue.       *)
C29_ConnectionTimeout ==
  [][\A h \in HsIds : hs[h].pc = "waitconn" =>
       /\ hs'[h].pc \in {"waitconn", "mkreq", "done"}
       /\ hs'[h].pc = "mkreq" => isConnected(TState)
       /\ hs'[h].pc = "done" =>
            /\ ~isConnected(TState)
            /\ hs'[h].result = Returned(FALSE, "WebSocket connection timeout", "")
            /\ hs'[h].sent = <<>>
            /\ \A i \in DOMAIN messageQueue' : messageQueue'[i].by # h]_vars

\* the first handshake timed out waiting for a connection that is still connecting
C29_Witness ==
  /\ hs[1].pc = "done"
  /\ hs[1].result = Returned(FALSE, "WebSocket connection timeout", "")
  /\ hs[1].sent = <<>>
  /\ ws # NULL
  /\ sock[ws] = "CONNECTING"
  /\ messageQueue = <<>>


(* C30: an auth_challenge whose payload lacks the challenge field fails the      *)
(* handshake with the invalid-challenge reason: a handshake gets past the        *)
(* challenge, to the signer and to the verify message, only with a challenge     *)
(* that carries the field.                                                       *)
C30_InvalidChallenge ==
  \A h \in HsIds : hs[h].pc = "signing" => hs[h].challengeMessage


(* C31: whenever a balance_update naming an asset and a balance is received,   *)
(* the cache entry of that asset becomes that balance observed at the current   *)
(* time and every callback registered with subscribeToBalanceUpdates is called  *)
(* with (asset, balance); and a getUnifiedBalance(asset, false) that finds the   *)
(* entry younger than the TTL returns its amount without sending a request.     *)
C31_PushUpdatesCache ==
  /\ [][(delivered' # delivered /\ delivered'.data = "json") =>
          LET m == delivered'.message
          IN (m.res /\ m.method = "balance_update" /\ m.payload = "object" /\ m.asset # "" /\ m.balance # "") =>
               /\ balanceCache'[m.asset] = [present |-> TRUE, amount |-> m.balance, timestamp |-> now]
               /\ \A k \in ObserverIds : observers[k] \in {"callback", "callbackThrows"} => <<k, m.asset, m.balance>> \in delivered'.notified]_vars
  /\ [][nCalls' = nCalls + 1 =>
          LET c == nCalls + 1
              entry == balanceCache[bc'[c].asset]
          IN (~bc'[c].force /\ entry.present /\ now - entry.timestamp < cacheDuration) =>
               (bc'[c].pc = "done" /\ bc'[c].result = entry.amount /\ wire' = wire /\ messageQueue' = messageQueue)]_vars

\* a push overwrote the amount in the cache, two callbacks were called (the first
\* throws), and a read within the TTL returned the new amount; the only request
\* sent is that of the earlier read of the other asset
C31_Witness ==
  /\ observers = <<"callbackThrows", "callback", "free">>
  /\ delivered.notified = {<<1, "usd", PulledAmount>>, <<2, "usd", PulledAmount>>}
  /\ balanceCache["usd"] = [present |-> TRUE, amount |-> PulledAmount, timestamp |-> 2 * TickMs]
  /\ bc[1].pc = "waiting"
  /\ bc[1].asset = "eur"
  /\ bc[2].pc = "done"
  /\ bc[2].asset = "usd"
  /\ bc[2].result = PulledAmount
  /\ now = 4 * TickMs
  /\ Len(wire) = 1


(* C32: a pull that fails, by timeout or by a response without payload or       *)
(* without balance field, leaves the cache as it was: a cache entry only ever   *)
(* holds an amount that a pull response or a push update carried.               *)
C32_CacheHoldsReturnedAmounts ==
  \A a \in Assets : balanceCache[a].present => balanceCache[a].amount \in {PulledAmount, PushedAmount}

(* C33: in chrome.storage.local the encrypted session key and the plaintext      *)
(* expiry are both present or both absent, and the expiry is the expiresAt of    *)
(* the key inside the ciphertext, after any sequence of persist, load,           *)
(* rotateIfNeeded and clear; a completed persist leaves exactly the key it was   *)
(* given, whatever was stored before.                                            *)
C33_StoredPairConsistent ==
  /\ [][/\ storage'.encryptedSessionKey.present <=> storage'.sessionKeyExpiry # 0
         /\ storage'.encryptedSessionKey.present => storage'.sessionKeyExpiry = storage'.encryptedSessionKey.key.expiresAt]_vars
  /\ [][\A i \in OpIds :
          (sk[i].pc = "saving" /\ sk'[i].pc = "done") =>
            LET key == IF sk[i].kind = "rotate" THEN sk[i].made ELSE sk[i].key
            IN storage' = [encryptedSessionKey |-> encrypt(key, sk[i].password), sessionKeyExpiry |-> key.expiresAt]]_vars

\* the first key expired, rotateIfNeeded persisted a second key over it, and a load
\* returned the second key: both entries are those of the second key
C33_Witness ==
  /\ sk[1].kind = "rotate" /\ sk[1].pc = "done"
  /\ sk[2].kind = "rotate" /\ sk[2].pc = "done" /\ sk[2].key = sk[1].made /\ sk[2].made \notin {NoKey, sk[1].made}
  /\ sk[3].kind = "load" /\ sk[3].pc = "done" /\ sk[3].result = sk[2].made
  /\ storage = [encryptedSessionKey |-> encrypt(sk[2].made, sk[2].password), sessionKeyExpiry |-> sk[2].made.expiresAt]

(* C34: isAuthenticated() is false until a handshake has completed with          *)
(* auth_success, and true only while neither a logout nor a loss of the          *)
(* connection has happened since: it becomes true only in the step in which a    *)
(* handshake completes successfully.                                             *)
C34_AuthenticatedOnlyAfterSuccess ==
  [][isAuthenticated(AState', TState') =>
       \/ isAuthenticated(AState, TState)
       \/ \E h \in HsIds : hs[h].pc # "done" /\ hs'[h].pc = "done" /\ hs'[h].result.success]_vars

(* C35: every authenticate call and every getUnifiedBalance call eventually      *)
(* settles when timers fire and the signing capability returns or throws, also   *)
(* when meanwhile the connection closes, the reconnect limit is reached, or      *)
(* disconnect() or logout() is called; and no call is ended by a transport       *)
(* event: the step that ends one changes no socket and not the handle.           *)
C35_EveryCallSettles ==
  /\ \A h \in HsIds : (hs[h].pc # "idle") ~> (hs[h].pc = "done")
  /\ \A c \in CallIds : (bc[c].pc # "idle") ~> (bc[c].pc = "done")
  /\ [][(\/ \E h \in HsIds : hs[h].pc # "done" /\ hs'[h].pc = "done"
         \/ \E c \in CallIds : bc[c].pc = "waiting" /\ bc'[c].pc = "done")
        => (sock' = sock /\ ws' = ws)]_vars

\* the first handshake timed out waiting for the challenge and a balance pull timed
\* out, and the connection was lost until the reconnect limit was reached
C35_Witness ==
  /\ hs[1].pc = "done"
  /\ hs[1].result.error = "Timeout waiting for auth_challenge"
  /\ bc[1].pc = "done"
  /\ bc[1].result = "0"
  /\ ws = NULL
  /\ reconnectAttempts = maxReconnectAttempts

(* C36: after disconnect() the transport stays as disconnect() left it (no        *)
(* handle, no reconnect timer, no attempt counted) until connect() or send() is  *)
(* called: no step other than these two, the late close event of the closed      *)
(* connection included, creates a socket or arms the reconnect timer.             *)
C36_DisconnectIsFinal ==
  [][(/\ ws = NULL /\ ~reconnectTimeout.pending /\ reconnectAttempts = 0
      /\ nSends' = nSends
      /\ \A s \in Sockets : sock'[s] = "CONNECTING" => sock[s] = "CONNECTING")
     => (ws' = NULL /\ ~reconnectTimeout'.pending /\ reconnectAttempts' = 0)]_vars

(* C37: the open or close event of a socket that is not the transport's current  *)
(* socket changes nothing of the transport: the close of a superseded socket     *)
(* does not clear the handle of an Open connection or schedule a reconnect, and  *)
(* the open of a superseded socket does not flush the outbound queue.            *)
C37_SupersededEventsIgnored ==
  [][\A s \in Sockets :
       (/\ s # ws
        /\ \/ sock[s] = "CONNECTING" /\ sock'[s] = "OPEN"
           \/ sock[s] # "NONE" /\ sock'[s] = "NONE")
       => /\ ws' = ws
          /\ messageQueue' = messageQueue
          /\ reconnectAttempts' = reconnectAttempts
          /\ reconnectTimeout' = reconnectTimeout
          /\ wire' = wire]_vars

(* C38: under any interleaving of authenticate and logout calls at most one      *)
(* handshake is executing, and the completion of a handshake does not release    *)
(* the single-flight guard while a handshake started later holds it.             *)
C38_OneHandshakeOwnGuard ==
  /\ [](Cardinality(InFlight) <= 1)
  /\ [][\A h \in HsIds :
          (hs[h].pc # "done" /\ hs'[h].pc = "done" /\ authInProgress /\ authPromise # h)
          => (authInProgress' /\ authPromise' = authPromise)]_vars

(* C39: the auth_challenge a handshake consumes answers that handshake's own     *)
(* auth request, and the auth_success it consumes answers its own verify         *)
(* message: an answer to the message of an earlier handshake is never accepted   *)
(* by a later one.                                                               *)
C39_AnswersOwnRequest ==
  [][\A h \in HsIds :
       /\ (hs[h].pc = "waitchal" /\ hs'[h].pc = "signing")
            => (delivered'.message.answers \in DOMAIN wire /\ wire[delivered'.message.answers].by = h)
       /\ (hs[h].pc = "waitsucc" /\ hs'[h].pc = "done" /\ hs'[h].result.success)
            => (delivered'.message.answers \in DOMAIN wire /\ wire[delivered'.message.answers].by = h)]_vars

(* C40: the key rotateIfNeeded(key, spent, asset, password) returns needs no     *)
(* rotation for the same spent and asset at the time of the return, so a second  *)
(* call with the returned key rotates nothing and writes nothing.                *)
C40_ReturnedKeyUsable ==
  [][\A i \in OpIds :
       (sk[i].pc # "done" /\ sk'[i].pc = "done" /\ sk'[i].kind = "rotate")
       => ~needsRotation(sk'[i].result, sk'[i].spentAmount, sk'[i].asset, now')]_vars

====
